---------------------------- MODULE Spec2Model ----------------------------
(***************************************************************************)
(* Storage resilience layer of the donation-receipt server:                *)
(*   - MemStorage, the in-memory record store                              *)
(*   - MongoDBStorage, the durable record store                            *)
(*   - StorageWrapper, the facade that falls back from one to the other    *)
(*   - the startup connection test that promotes the durable store         *)
(*                                                                         *)
(* A JavaScript string is modelled as a tuple of one-character strings,    *)
(* so that the regular expression /^\d+$/, parseInt and localeCompare are  *)
(* computed character by character.                                        *)
(***************************************************************************)
EXTENDS Integers, Sequences, FiniteSets, TLC

\* ------------------------------------------------------------------------
\* Bounds of the model
\* ------------------------------------------------------------------------

\* number of facade calls issued by consumers in one behaviour
MaxOps == 2

\* number of donations held by the in-memory store in the receipt-number
\* specification
MaxStored == 3

\* ------------------------------------------------------------------------
\* Program constants
\* ------------------------------------------------------------------------

MAX_CONNECTION_ATTEMPTS == 3

\* ------------------------------------------------------------------------
\* Strings
\* ------------------------------------------------------------------------

Digits == {"0", "1", "2", "3", "4", "5", "6", "7", "8", "9"}

\* collation rank of a character: digits sort before letters, letters
\* alphabetically (the characters used by receipt numbers)
CharRank(c) ==
    CASE c = "0" -> 0 [] c = "1" -> 1 [] c = "2" -> 2 [] c = "3" -> 3
      [] c = "4" -> 4 [] c = "5" -> 5 [] c = "6" -> 6 [] c = "7" -> 7
      [] c = "8" -> 8 [] c = "9" -> 9
      [] c = "A" -> 10 [] c = "N" -> 11 [] c = "T" -> 12

\* /^\d+$/.test(s)
IsNumeric(s) == Len(s) > 0 /\ \A i \in 1..Len(s) : s[i] \in Digits

\* parseInt(s) of a digit string
RECURSIVE parseInt(_)
parseInt(s) ==
    IF Len(s) = 0 THEN 0
    ELSE 10 * parseInt(SubSeq(s, 1, Len(s) - 1)) + CharRank(s[Len(s)])

\* a.localeCompare(b): -1, 0 or 1
RECURSIVE localeCompare(_, _)
localeCompare(a, b) ==
    IF Len(a) = 0 /\ Len(b) = 0 THEN 0
    ELSE IF Len(a) = 0 THEN -1
    ELSE IF Len(b) = 0 THEN 1
    ELSE IF CharRank(a[1]) < CharRank(b[1]) THEN -1
    ELSE IF CharRank(a[1]) > CharRank(b[1]) THEN 1
    ELSE localeCompare(Tail(a), Tail(b))

\* the receipt numbers consumers submit
ReceiptNumbers ==
    { <<"7">>, <<"9">>, <<"1", "0">>, <<"1", "2">>, <<"1", "A">>,
      <<"A", "N", "T">> }

\* the absent value (undefined)
Absent == <<"undefined">>

\* ------------------------------------------------------------------------
\* Array.prototype.sort as the runtime computes it for short arrays
\* (TimSort: one run is counted, the rest is inserted by binary insertion)
\* ------------------------------------------------------------------------

\* the comparator of MemStorage.getLastReceiptNumber, on donations a and b
MemCompare(a, b) ==
    IF IsNumeric(a.receiptNumber) /\ IsNumeric(b.receiptNumber)
    THEN parseInt(b.receiptNumber) - parseInt(a.receiptNumber)
    ELSE localeCompare(b.receiptNumber, a.receiptNumber)

Reverse(s) == [i \in 1..Len(s) |-> s[Len(s) + 1 - i]]

\* length of the run that starts at arr[1], given that arr[1..idx-1] is in it
RECURSIVE RunLength(_, _, _)
RunLength(arr, idx, isDescending) ==
    IF idx > Len(arr) THEN idx - 1
    ELSE LET order == MemCompare(arr[idx], arr[idx - 1])
         IN  IF isDescending
             THEN IF order >= 0 THEN idx - 1
                  ELSE RunLength(arr, idx + 1, isDescending)
             ELSE IF order < 0 THEN idx - 1
                  ELSE RunLength(arr, idx + 1, isDescending)

\* CountAndMakeRun: the array with its first run made ascending, and the
\* length of that run
CountAndMakeRun(arr) ==
    IF Len(arr) < 2 THEN [arr |-> arr, run |-> Len(arr)]
    ELSE LET isDescending == MemCompare(arr[2], arr[1]) < 0
             run == RunLength(arr, 3, isDescending)
         IN  [arr |-> IF isDescending
                      THEN Reverse(SubSeq(arr, 1, run))
                             \o SubSeq(arr, run + 1, Len(arr))
                      ELSE arr,
              run |-> run]

\* binary search of the insertion point of pivot in arr[left+1 .. right]
\* (0-based left and right as in the runtime)
RECURSIVE InsertionPoint(_, _, _, _)
InsertionPoint(arr, pivot, left, right) ==
    IF left >= right THEN left
    ELSE LET mid == left + ((right - left) \div 2)
         IN  IF MemCompare(pivot, arr[mid + 1]) < 0
             THEN InsertionPoint(arr, pivot, left, mid)
             ELSE InsertionPoint(arr, pivot, mid + 1, right)

\* BinaryInsertionSort of arr, whose first start elements are sorted
RECURSIVE BinaryInsertionSort(_, _)
BinaryInsertionSort(arr, start) ==
    IF start >= Len(arr) THEN arr
    ELSE LET pivot == arr[start + 1]
             left == InsertionPoint(arr, pivot, 0, start)
             moved == SubSeq(arr, 1, left) \o <<pivot>>
                        \o SubSeq(arr, left + 1, start)
                        \o SubSeq(arr, start + 2, Len(arr))
         IN  BinaryInsertionSort(moved, start + 1)

\* donations.sort(comparator)
SortDonations(arr) ==
    LET r == CountAndMakeRun(arr)
    IN  BinaryInsertionSort(r.arr, r.run)

\* ------------------------------------------------------------------------
\* MemStorage: donations
\* ------------------------------------------------------------------------

\* MemStorage.createDonation: the stored record
MemNewDonation(id, receiptNumber) ==
    [id |-> id, receiptNumber |-> receiptNumber]

\* MemStorage.getDonations
MemGetDonations(donations) == donations

\* MemStorage.getLastReceiptNumber
MemGetLastReceiptNumber(donations) ==
    IF Len(donations) = 0 THEN Absent
    ELSE SortDonations(donations)[1].receiptNumber

\* MemStorage.getDonationByReceiptNumber: the first donation, in insertion
\* order, with that receipt number
MemGetDonationByReceiptNumber(donations, receiptNumber) ==
    LET found == {i \in 1..Len(donations) :
                    donations[i].receiptNumber = receiptNumber}
    IN  IF found = {} THEN [tag |-> "undefined", val |-> <<>>]
        ELSE [tag |-> "donation",
              val |-> donations[CHOOSE i \in found : \A j \in found : i <= j]]

\* ------------------------------------------------------------------------
\* Accounts
\* ------------------------------------------------------------------------

\* the login-handle of the administrator both stores create for themselves
AdminHandle == "admin@example.com"

\* the login-handles consumers submit
Handles == {AdminHandle, "staff@example.com"}

\* an account id as the in-memory store assigns it: a number
NumberId(n) == [shape |-> "number", n |-> n]

\* an account id as the durable store returns it: _id.toString(), the 24
\* hexadecimal characters of the n-th generated ObjectId
ObjectIdString(n) == [shape |-> "objectid", n |-> n]

\* undefined, as the result of a lookup
Undefined == [tag |-> "undefined", val |-> <<>>]

\* MemStorage.createUser: the stored account
MemNewUser(id, username) ==
    [id |-> NumberId(id), username |-> username, isActive |-> TRUE]

\* variant: a lookup that finds no account throws
MemGetUserMissingThrows(users, id) ==
    LET found == {i \in 1..Len(users) :
                    id.shape = "number" /\ users[i].id = id}
    IN  IF found = {} THEN [tag |-> "error", val |-> <<"User not found">>]
        ELSE [tag |-> "user", val |-> users[CHOOSE i \in found : TRUE]]

\* this.users.get(Number(id)): Number() of the 24 characters of an ObjectId
\* is no key of the map
MemGetUser(users, id) ==
    LET found == {i \in 1..Len(users) :
                    id.shape = "number" /\ users[i].id = id}
    IN  IF found = {} THEN Undefined
        ELSE [tag |-> "user", val |-> users[CHOOSE i \in found : TRUE]]

\* MemStorage.getUserByUsername: the first account, in insertion order, with
\* that login-handle
MemGetUserByUsername(users, username) ==
    LET found == {i \in 1..Len(users) : users[i].username = username}
    IN  IF found = {} THEN Undefined
        ELSE [tag |-> "user",
              val |-> users[CHOOSE i \in found : \A j \in found : i <= j]]

\* MemStorage.updateUserStatus: this.users.set(Number(id), updatedUser)
MemSetUserStatus(users, id, isActive) ==
    [i \in 1..Len(users) |->
       IF users[i].id = id THEN [users[i] EXCEPT !.isActive = isActive]
       ELSE users[i]]

\* MemStorage.deleteUser: this.users.delete(Number(id))
MemDeleteUser(users, id) == SelectSeq(users, LAMBDA u : u.id # id)

\* ------------------------------------------------------------------------
\* State
\* ------------------------------------------------------------------------

VARIABLES
    \* StorageWrapper (the live facade object storageWrapper)
    useFallback,              \* private useFallback
    primaryStorage,           \* "mem" or "mongo"
    fallbackStorage,          \* always "mem"
    connectionTestCompleted,  \* private connectionTestCompleted
    \* module initialisation and the startup connection test
    mongoStorage,             \* "created", or "null" when the constructor threw
    probePc,                  \* "none", "waiting", "pinging", "done"
    pingResult,               \* what mongoStorage.ping() returned
    \* MongoDBStorage
    connected,                \* private connected
    connectionPromise,        \* TRUE while the field holds the promise
    connPc,                   \* progress of initConnection
    connectionAttempts,       \* private connectionAttempts
    mongoDonations,           \* the donations collection
    \* MemStorage
    memDonations,             \* the donations map, in insertion order
    donationCurrentId,        \* private donationCurrentId
    \* callers of the facade
    ops,                      \* one record per facade call
    \* result of a direct MemStorage.getLastReceiptNumber call
    lastReceipt,
    \* MemStorage: accounts
    memUsers,                 \* the users map, in insertion order
    userCurrentId,            \* private userCurrentId
    \* MongoDBStorage: accounts
    mongoUsers,               \* the users collection
    objectIds,                \* number of _id values generated so far
    adminPc,                  \* progress of checkAndCreateAdminUser
    \* result of a direct MongoDBStorage.getLastReceiptNumber call
    mongoLastReceipt,
    \* result of a direct account operation of MongoDBStorage
    mongoAccount,
    \* the calls made directly on MemStorage, in order, with the id each
    \* one returned or was given
    memCalls,
    \* route handlers
    reqs,                     \* one record per POST /api/users request
    clients,                  \* one record per client that submits a donation
    deleteReq                 \* the last DELETE /api/users/:id request

vars == << useFallback, primaryStorage, fallbackStorage,
           connectionTestCompleted, mongoStorage, probePc, pingResult,
           connected, connectionPromise, connPc, connectionAttempts,
           mongoDonations, memDonations, donationCurrentId, ops,
           lastReceipt, memUsers, userCurrentId, mongoUsers, objectIds,
           adminPc, mongoLastReceipt, mongoAccount, memCalls, reqs,
           clients, deleteReq >>

facadeVars == << useFallback, primaryStorage, fallbackStorage,
                 connectionTestCompleted >>
probeVars == << mongoStorage, probePc, pingResult >>
connVars == << connected, connectionPromise, connPc, connectionAttempts >>
memVars == << memDonations, donationCurrentId, memUsers, userCurrentId >>
mongoVars == << mongoDonations, mongoUsers, objectIds, adminPc >>
routeVars == << reqs, clients, deleteReq >>
directVars == << lastReceipt, mongoLastReceipt, mongoAccount, memCalls >>
callerVars == << directVars, routeVars >>

OpIds == 1..MaxOps

\* the receipt numbers of the donations submitted through the facade
DonationInputs == { <<"1", "2">> }

\* the operations of IStorage that consumers call through the facade: one
\* that writes and one that reads
Calls ==
    { [kind |-> "createDonation", arg |-> rn] : rn \in DonationInputs }
      \cup { [kind |-> "getDonations", arg |-> <<>>] }

NoResult == [tag |-> "none", val |-> <<>>]
NoCall == [kind |-> "none", arg |-> <<>>]

\* a thrown error
Error(msg) == [tag |-> "error", val |-> <<msg>>]
ErrConnectionFailed == Error("MongoDB connection failed")
ErrConnectionTimeout ==
    Error("MongoDB connection failed: Connection initialization timed out")
ErrNotConnected == Error("MongoDB is not connected")
ErrOperationTimeout == Error("MongoDB operation timed out")
ErrBackend == Error("backend error")

\* two results are the same value
SameResult(a, b) == a.tag = b.tag /\ a.val = b.val

\* a POST /api/users request that has not arrived
IdleReq == [pc |-> "idle", handle |-> "", status |-> 0]

\* a client that has not asked for a receipt number
IdleClient == [pc |-> "idle", receiptNumber |-> << >>]

IdleOp ==
    [ pc |-> "idle",            \* "idle", "primary" (awaiting the race), "done"
      kind |-> "none", arg |-> <<>>,
      startFallback |-> FALSE,  \* useFallback when the call began
      startPrimary |-> "none",  \* primaryStorage when the call began
      mongoPc |-> "none",       \* progress of the durable store's operation
      mongoTmp |-> 0,           \* nextId read by createDonation
      mongoRes |-> NoResult,    \* what the durable store's operation returned
                                \* or threw while the race was awaited
      memCall |-> NoCall,       \* the operation invoked on the in-memory store
      memRes |-> NoResult,      \* what the in-memory store's operation returned
      ret |-> NoResult,         \* what executeWithFallback returned
      retFrom |-> "none",       \* the store whose promise was returned
      cause |-> "none",         \* "threw" or "guard" when the catch block ran
      warned |-> FALSE ]        \* console.warn was called for this call

\* ------------------------------------------------------------------------
\* MemStorage operations on the state st of the store: its donations and
\* accounts and the two id counters.  The argument of an operation is a
\* tuple: <<receiptNumber>> flattened to the receipt number itself for the
\* donation operations, <<handle>>, <<id>> or <<id, isActive>> for the
\* account operations.
\* ------------------------------------------------------------------------

MemState ==
    [donations |-> memDonations, currentId |-> donationCurrentId,
     users |-> memUsers, userCurrentId |-> userCurrentId]

\* variant: createDonation returns the record without storing it
MemOpCreateNotStored(st, kind, arg) ==
    CASE kind = "createDonation" ->
           [st |-> [st EXCEPT !.currentId = st.currentId + 1],
            res |-> [tag |-> "donation",
                     val |-> MemNewDonation(st.currentId, arg)]]
      [] kind = "getDonations" ->
           [st |-> st,
            res |-> [tag |-> "list", val |-> MemGetDonations(st.donations)]]
      [] kind = "getLastReceiptNumber" ->
           [st |-> st,
            res |-> [tag |-> "last",
                     val |-> MemGetLastReceiptNumber(st.donations)]]

\* variant: deleteUser clears the donations as well
MemOpDeleteCascades(st, kind, arg) ==
    CASE kind = "createDonation" ->
           LET d == MemNewDonation(st.currentId, arg)
           IN  [st |-> [st EXCEPT !.donations = Append(st.donations, d),
                                  !.currentId = st.currentId + 1],
                res |-> [tag |-> "donation", val |-> d]]
      [] kind = "getDonations" ->
           [st |-> st,
            res |-> [tag |-> "list", val |-> MemGetDonations(st.donations)]]
      [] kind = "createUser" ->
           LET u == MemNewUser(st.userCurrentId, arg[1])
           IN  [st |-> [st EXCEPT !.users = Append(st.users, u),
                                  !.userCurrentId = st.userCurrentId + 1],
                res |-> [tag |-> "user", val |-> u]]
      [] kind = "getUser" ->
           [st |-> st, res |-> MemGetUser(st.users, arg[1])]
      [] kind = "getUsers" ->
           [st |-> st, res |-> [tag |-> "users", val |-> st.users]]
      [] kind = "updateUserStatus" ->
           [st |-> [st EXCEPT !.users = MemSetUserStatus(st.users, arg[1],
                                                         arg[2])],
            res |-> MemGetUser(MemSetUserStatus(st.users, arg[1], arg[2]),
                               arg[1])]
      [] kind = "deleteUser" ->
           [st |-> [st EXCEPT !.users = MemDeleteUser(st.users, arg[1]),
                              !.donations = << >>],
            res |-> [tag |-> "void", val |-> <<>>]]

\* variant: createUser and createDonation take the number of stored
\* entries plus one as the id
MemOpIdFromSize(st, kind, arg) ==
    CASE kind = "createDonation" ->
           LET d == MemNewDonation(Len(st.donations) + 1, arg)
           IN  [st |-> [st EXCEPT !.donations = Append(st.donations, d),
                                  !.currentId = st.currentId + 1],
                res |-> [tag |-> "donation", val |-> d]]
      [] kind = "createUser" ->
           LET u == MemNewUser(Len(st.users) + 1, arg[1])
           IN  [st |-> [st EXCEPT !.users = Append(st.users, u),
                                  !.userCurrentId = st.userCurrentId + 1],
                res |-> [tag |-> "user", val |-> u]]
      [] kind = "updateUserStatus" ->
           [st |-> [st EXCEPT !.users = MemSetUserStatus(st.users, arg[1],
                                                         arg[2])],
            res |-> MemGetUser(MemSetUserStatus(st.users, arg[1], arg[2]),
                               arg[1])]
      [] kind = "deleteUser" ->
           [st |-> [st EXCEPT !.users = MemDeleteUser(st.users, arg[1])],
            res |-> [tag |-> "void", val |-> <<>>]]

MemOp(st, kind, arg) ==
    CASE kind = "createDonation" ->
           LET d == MemNewDonation(st.currentId, arg)
           IN  [st |-> [st EXCEPT !.donations = Append(st.donations, d),
                                  !.currentId = st.currentId + 1],
                res |-> [tag |-> "donation", val |-> d]]
      [] kind = "getDonations" ->
           [st |-> st,
            res |-> [tag |-> "list", val |-> MemGetDonations(st.donations)]]
      [] kind = "getLastReceiptNumber" ->
           [st |-> st,
            res |-> [tag |-> "last",
                     val |-> MemGetLastReceiptNumber(st.donations)]]
      [] kind = "getDonationByReceiptNumber" ->
           [st |-> st,
            res |-> MemGetDonationByReceiptNumber(st.donations, arg)]
      [] kind = "createUser" ->
           LET u == MemNewUser(st.userCurrentId, arg[1])
           IN  [st |-> [st EXCEPT !.users = Append(st.users, u),
                                  !.userCurrentId = st.userCurrentId + 1],
                res |-> [tag |-> "user", val |-> u]]
      [] kind = "getUser" ->
           [st |-> st, res |-> MemGetUser(st.users, arg[1])]
      [] kind = "getUserByUsername" ->
           [st |-> st, res |-> MemGetUserByUsername(st.users, arg[1])]
      [] kind = "getUsers" ->
           [st |-> st, res |-> [tag |-> "users", val |-> st.users]]
      [] kind = "updateUserStatus" ->
           [st |-> [st EXCEPT !.users = MemSetUserStatus(st.users, arg[1],
                                                         arg[2])],
            res |-> MemGetUser(MemSetUserStatus(st.users, arg[1], arg[2]),
                               arg[1])]
      [] kind = "deleteUser" ->
           [st |-> [st EXCEPT !.users = MemDeleteUser(st.users, arg[1])],
            res |-> [tag |-> "void", val |-> <<>>]]

\* ------------------------------------------------------------------------
\* MongoDBStorage: queries on the donations collection
\* ------------------------------------------------------------------------

\* code unit of a character: the database compares strings by code unit
CharCode(c) ==
    CASE c \in Digits -> 48 + CharRank(c)
      [] c = "A" -> 65 [] c = "N" -> 78 [] c = "T" -> 84

RECURSIVE MongoStringLess(_, _)
MongoStringLess(a, b) ==
    IF Len(b) = 0 THEN FALSE
    ELSE IF Len(a) = 0 THEN TRUE
    ELSE IF CharCode(a[1]) # CharCode(b[1]) THEN CharCode(a[1]) < CharCode(b[1])
    ELSE MongoStringLess(Tail(a), Tail(b))

DocSet(coll) == {coll[i] : i \in 1..Len(coll)}

\* find().sort({ id: -1 }).limit(1): the highest id, 0 on an empty collection
MongoHighestId(coll) ==
    IF Len(coll) = 0 THEN 0
    ELSE CHOOSE n \in {d.id : d \in DocSet(coll)} :
             \A d \in DocSet(coll) : d.id <= n

\* find(filter).sort({ receiptNumber: -1 }).limit(1) over the documents docs
MongoTopReceipt(docs) ==
    CHOOSE r \in {d.receiptNumber : d \in docs} :
        \A d \in docs : ~MongoStringLess(r, d.receiptNumber)

MongoNumericDocs(coll) == {d \in DocSet(coll) : IsNumeric(d.receiptNumber)}

\* MongoDBStorage.getLastReceiptNumber on the collection coll: the query for
\* pure-digit receipt numbers first, then the query over all of them
MongoGetLastReceiptNumber(coll) ==
    IF MongoNumericDocs(coll) # {} THEN MongoTopReceipt(MongoNumericDocs(coll))
    ELSE IF Len(coll) = 0 THEN Absent
    ELSE MongoTopReceipt(DocSet(coll))

\* findOne({ receiptNumber }) and the returned { id: _id.toString(),
\* ...donation }: the spread restores the numeric id of the document
MongoGetDonationByReceiptNumber(coll, receiptNumber) ==
    LET found == {i \in 1..Len(coll) : coll[i].receiptNumber = receiptNumber}
    IN  IF found = {} THEN Undefined
        ELSE [tag |-> "donation",
              val |-> coll[CHOOSE i \in found : \A j \in found : i <= j]]

\* ------------------------------------------------------------------------
\* MongoDBStorage: queries on the users collection.  A document is
\* [oid, username, isActive]: it has an _id and no id field.
\* ------------------------------------------------------------------------

\* the account returned for a document: id is _id.toString()
MongoUserOut(doc) ==
    [id |-> ObjectIdString(doc.oid), username |-> doc.username,
     isActive |-> doc.isActive]

\* the document inserted by createUser and by checkAndCreateAdminUser
MongoNewUser(oid, username) ==
    [oid |-> oid, username |-> username, isActive |-> TRUE]

\* findOne({ _id: new ObjectId(id) })
MongoFindById(coll, oid) == {i \in 1..Len(coll) : coll[i].oid = oid}

\* findOne({ username })
MongoFindByUsername(coll, username) ==
    LET found == {i \in 1..Len(coll) : coll[i].username = username}
    IN  IF found = {} THEN Undefined
        ELSE [tag |-> "user",
              val |-> MongoUserOut(
                        coll[CHOOSE i \in found : \A j \in found : i <= j])]

\* ------------------------------------------------------------------------
\* MongoDBStorage: how getUser, updateUserStatus and deleteUser find the
\* document for an id, on a users collection that may hold documents
\* written by other versions of the program: those have a field id, a
\* number or a string.  An id given as a string is ObjectIdString(n), the
\* 24 hexadecimal characters of an _id, or StringId(k), the shorter string
\* IdStrings[k].
\* ------------------------------------------------------------------------

\* isNaN(x) holds of this value
NaN == -1

\* a document without a field id
NoId == [shape |-> "none", n |-> 0]

IdStrings == << <<"7">>, <<"7", "A">>, <<"A">> >>

StringId(k) == [shape |-> "string", n |-> k]

\* the leading decimal digits of a string
RECURSIVE DigitPrefix(_)
DigitPrefix(s) ==
    IF Len(s) = 0 \/ s[1] \notin Digits THEN << >>
    ELSE << s[1] >> \o DigitPrefix(Tail(s))

\* typeof id === 'string' ? parseInt(id) : id.  The leading digits of the
\* 24 characters of an _id, if there are any, are taken to be the id of no
\* document.
JsParseInt(id) ==
    CASE id.shape = "number" -> id.n
      [] id.shape = "string" ->
           IF DigitPrefix(IdStrings[id.n]) = << >> THEN NaN
           ELSE parseInt(DigitPrefix(IdStrings[id.n]))
      [] id.shape = "objectid" -> NaN

\* typeof id === 'number' ? id : Number(id)
JsNumber(id) ==
    CASE id.shape = "number" -> id.n
      [] id.shape = "string" ->
           IF IsNumeric(IdStrings[id.n]) THEN parseInt(IdStrings[id.n])
           ELSE NaN
      [] id.shape = "objectid" -> NaN

\* the first element of a set of positions, 0 if there is none
FirstIndex(S) == IF S = {} THEN 0 ELSE CHOOSE i \in S : \A j \in S : i <= j

\* findOne({ _id: new ObjectId(id) }), tried for a string of 24 characters
FindOneByObjectId(coll, id) ==
    IF id.shape = "objectid"
    THEN FirstIndex({i \in 1..Len(coll) : coll[i].oid = id.n})
    ELSE 0

\* findOne({ id: v })
FindOneById(coll, v) == FirstIndex({i \in 1..Len(coll) : coll[i].id = v})

\* getUser: by _id, then by parseInt(id)
GetUserFinds(coll, id) ==
    IF FindOneByObjectId(coll, id) # 0 THEN FindOneByObjectId(coll, id)
    ELSE IF JsParseInt(id) # NaN
    THEN FindOneById(coll, NumberId(JsParseInt(id)))
    ELSE 0

\* updateUserStatus: by _id, then by Number(id), then by the string itself
UpdateUserStatusFinds(coll, id) ==
    IF FindOneByObjectId(coll, id) # 0 THEN FindOneByObjectId(coll, id)
    ELSE IF JsNumber(id) # NaN
            /\ FindOneById(coll, NumberId(JsNumber(id))) # 0
    THEN FindOneById(coll, NumberId(JsNumber(id)))
    ELSE IF id.shape # "number" THEN FindOneById(coll, id)
    ELSE 0

\* deleteUser: deleteOne by _id, then deleteOne by parseInt(id)
DeleteUserFinds(coll, id) ==
    IF FindOneByObjectId(coll, id) # 0 THEN FindOneByObjectId(coll, id)
    ELSE IF JsParseInt(id) # NaN
    THEN FindOneById(coll, NumberId(JsParseInt(id)))
    ELSE 0

\* what getUser returns
MongoGetUser(coll, id) ==
    IF GetUserFinds(coll, id) = 0 THEN Undefined
    ELSE [tag |-> "user", val |-> MongoUserOut(coll[GetUserFinds(coll, id)])]

\* what updateUserStatus can do: the collection afterwards and the value
\* returned.  findOneAndUpdate({ _id: user._id }, { $set: { isActive } })
\* changes the document; whether its result has a field value depends on
\* the version of the driver.
MongoUpdateUserStatus(coll, id, isActive) ==
    IF UpdateUserStatusFinds(coll, id) = 0
    THEN { [users |-> coll, res |-> Undefined] }
    ELSE { [users |-> [coll EXCEPT ![UpdateUserStatusFinds(coll, id)].isActive
                                      = isActive],
            res |-> r] :
           r \in { Undefined,
                   [tag |-> "user",
                    val |-> MongoUserOut(
                      [coll[UpdateUserStatusFinds(coll, id)]
                         EXCEPT !.isActive = isActive])] } }

\* the collection after deleteUser
MongoDeleteUser(coll, id) ==
    [j \in 1..(Len(coll) - (IF DeleteUserFinds(coll, id) = 0 THEN 0 ELSE 1))
       |-> IF DeleteUserFinds(coll, id) = 0 \/ j < DeleteUserFinds(coll, id)
           THEN coll[j] ELSE coll[j + 1]]

\* the database as the operations see it
MongoState ==
    [donations |-> mongoDonations, users |-> mongoUsers,
     objectIds |-> objectIds]

\* the outcome of a database call: the operation goes on to its next call
\* or returns
MongoGoesOn(db, tmp) == [pc |-> "db2", tmp |-> tmp, res |-> NoResult, db |-> db]
MongoDone(db, res) == [pc |-> "ok", tmp |-> 0, res |-> res, db |-> db]

\* const nextId = highestDonation ? highestDonation.id + 1 : 1
MongoNextId(coll) == MongoHighestId(coll) + 1

\* the outcomes of the pending database call of the operation rec on the
\* database db
MongoStep(rec, db) ==
    CASE rec.kind = "createDonation" /\ rec.mongoPc = "db1" ->
           \* find().sort({ id: -1 }).limit(1)
           { MongoGoesOn(db, MongoNextId(db.donations)) }
      [] rec.kind = "createDonation" /\ rec.mongoPc = "db2" ->
           \* insertOne(donation)
           { MongoDone([db EXCEPT !.donations =
                          Append(db.donations,
                                 [id |-> rec.mongoTmp,
                                  receiptNumber |-> rec.arg])],
                       [tag |-> "donation",
                        val |-> [id |-> rec.mongoTmp,
                                 receiptNumber |-> rec.arg]]) }
      [] rec.kind = "getDonations" ->
           { MongoDone(db, [tag |-> "list", val |-> db.donations]) }
      [] rec.kind = "getDonationByReceiptNumber" ->
           { MongoDone(db, MongoGetDonationByReceiptNumber(db.donations,
                                                           rec.arg)) }
      [] rec.kind = "createUser" ->
           \* insertOne(newUser); id: result.insertedId.toString()
           { MongoDone([db EXCEPT !.users =
                          Append(db.users,
                                 MongoNewUser(db.objectIds + 1, rec.arg[1])),
                                  !.objectIds = db.objectIds + 1],
                       [tag |-> "user",
                        val |-> MongoUserOut(
                                  MongoNewUser(db.objectIds + 1,
                                               rec.arg[1]))]) }
      [] rec.kind = "getUserByUsername" ->
           { MongoDone(db, MongoFindByUsername(db.users, rec.arg[1])) }
      [] rec.kind = "getUsers" ->
           { MongoDone(db, [tag |-> "users",
                            val |-> [i \in 1..Len(db.users) |->
                                       MongoUserOut(db.users[i])]]) }
      [] rec.kind = "getUser" /\ rec.mongoPc = "db1" ->
           \* an id of 24 characters is looked up as an _id first; a number
           \* is looked up in the field id, which no document has
           IF rec.arg[1].shape = "objectid"
           THEN IF MongoFindById(db.users, rec.arg[1].n) # {}
                THEN { MongoDone(db,
                         [tag |-> "user",
                          val |-> MongoUserOut(
                                    db.users[CHOOSE i \in MongoFindById(
                                               db.users, rec.arg[1].n) :
                                                 TRUE])]) }
                ELSE { MongoGoesOn(db, 0) }
           ELSE { MongoDone(db, Undefined) }
      [] rec.kind = "getUser" /\ rec.mongoPc = "db2" ->
           \* findOne({ id: parseInt(id) })
           { MongoDone(db, Undefined) }
      [] rec.kind = "deleteUser" /\ rec.mongoPc = "db1" ->
           IF rec.arg[1].shape = "objectid"
           THEN IF MongoFindById(db.users, rec.arg[1].n) # {}
                THEN { MongoDone([db EXCEPT !.users =
                                    SelectSeq(db.users,
                                      LAMBDA u : u.oid # rec.arg[1].n)],
                                 [tag |-> "void", val |-> <<>>]) }
                ELSE { MongoGoesOn(db, 0) }
           ELSE { MongoDone(db, [tag |-> "void", val |-> <<>>]) }
      [] rec.kind = "deleteUser" /\ rec.mongoPc = "db2" ->
           \* deleteOne({ id: parseInt(id) })
           { MongoDone(db, [tag |-> "void", val |-> <<>>]) }
      [] rec.kind = "updateUserStatus" /\ rec.mongoPc = "db1" ->
           IF rec.arg[1].shape = "objectid"
           THEN { MongoGoesOn(db, IF MongoFindById(db.users, rec.arg[1].n) # {}
                                  THEN rec.arg[1].n ELSE 0) }
           ELSE { MongoDone(db, Undefined) }
      [] rec.kind = "updateUserStatus" /\ rec.mongoPc = "db2" ->
           \* findOneAndUpdate({ _id }, { $set: { isActive } }) when the
           \* account was found, findOne({ id: id }) when it was not; whether
           \* the result of the update has a field value depends on the
           \* version of the driver
           IF rec.mongoTmp # 0 /\ MongoFindById(db.users, rec.mongoTmp) # {}
           THEN { MongoDone(
                    [db EXCEPT !.users =
                       [i \in 1..Len(db.users) |->
                          IF db.users[i].oid = rec.mongoTmp
                          THEN [db.users[i] EXCEPT !.isActive = rec.arg[2]]
                          ELSE db.users[i]]],
                    res) :
                  res \in { Undefined,
                            [tag |-> "user",
                             val |-> [id |-> ObjectIdString(rec.mongoTmp),
                                      username |->
                                        db.users[CHOOSE i \in MongoFindById(
                                          db.users, rec.mongoTmp) : TRUE]
                                          .username,
                                      isActive |-> rec.arg[2]]] } }
           ELSE { MongoDone(db, Undefined) }

\* ------------------------------------------------------------------------
\* Initial state: initialisation of the storage module
\* ------------------------------------------------------------------------

\* the accounts and the callers at initialisation: the constructor of
\* no DELETE /api/users/:id request was made
NoDelete == [store |-> "none", id |-> NoId, status |-> 0]

\* MemStorage creates the administrator, the users collection is that of a
\* new database
InitAccounts ==
    /\ memUsers = << MemNewUser(1, AdminHandle) >>
    /\ userCurrentId = 2
    /\ mongoUsers = << >>
    /\ objectIds = 0
    /\ adminPc = "none"
    /\ mongoLastReceipt = NoResult
    /\ mongoAccount = NoResult
    /\ memCalls = << >>
    /\ reqs = [r \in OpIds |-> IdleReq]
    /\ clients = [c \in OpIds |-> IdleClient]
    /\ deleteReq = NoDelete

\* variant: the facade is constructed with the durable store as primary
InitDurablePrimary ==
    /\ useFallback = FALSE
    /\ primaryStorage = "mongo"
    /\ fallbackStorage = "mem"
    /\ connectionTestCompleted = FALSE
    /\ mongoStorage \in {"created", "null"}
    /\ probePc = IF mongoStorage = "created" THEN "waiting" ELSE "none"
    /\ pingResult = "none"
    /\ connected = FALSE
    /\ connectionPromise = (mongoStorage = "created")
    /\ connPc = IF mongoStorage = "created" THEN "connecting" ELSE "none"
    /\ connectionAttempts = IF mongoStorage = "created" THEN 1 ELSE 0
    /\ mongoDonations = << >>
    /\ memDonations = << >>
    /\ donationCurrentId = 1
    /\ ops = [o \in OpIds |-> IdleOp]
    /\ lastReceipt = NoResult
    /\ InitAccounts

Init ==
    \* const storageWrapper = new StorageWrapper(memStorage, memStorage)
    /\ useFallback = FALSE
    /\ primaryStorage = "mem"
    /\ fallbackStorage = "mem"
    /\ connectionTestCompleted = FALSE
    \* new MongoDBStorage(uri, dbName) either throws (malformed URI) or
    \* starts initConnection and schedules the connection test
    /\ mongoStorage \in {"created", "null"}
    /\ probePc = IF mongoStorage = "created" THEN "waiting" ELSE "none"
    /\ pingResult = "none"
    /\ connected = FALSE
    /\ connectionPromise = (mongoStorage = "created")
    /\ connPc = IF mongoStorage = "created" THEN "connecting" ELSE "none"
    /\ connectionAttempts = IF mongoStorage = "created" THEN 1 ELSE 0
    /\ mongoDonations = << >>
    \* new MemStorage()
    /\ memDonations = << >>
    /\ donationCurrentId = 1
    /\ ops = [o \in OpIds |-> IdleOp]
    /\ lastReceipt = NoResult
    /\ InitAccounts

\* ------------------------------------------------------------------------
\* StorageWrapper.executeWithFallback
\* ------------------------------------------------------------------------

\* variant: the shortcut to the fallback store is never taken
GoesDirectlyToFallbackNever == FALSE

\* if (this.useFallback): the call goes directly to the fallback store
GoesDirectlyToFallback == useFallback

\* operation(this.fallbackStorage) for the call rec; m is what the
\* in-memory store's operation does: its new state and its result
RunOnMem(rec, m) ==
    [st |-> m.st,
     rec |-> [rec EXCEPT !.pc = "done",
                         !.memCall = [kind |-> rec.kind, arg |-> rec.arg],
                         !.memRes = m.res,
                         !.ret = m.res,
                         !.retFrom = "mem"],
     useFallback |-> useFallback]

\* variant: the catch block retries on the fallback store without writing
\* useFallback
CatchAndFallbackKeepsDesignation(rec, cause, m) ==
    [st |-> m.st,
     rec |-> RunOnMem([rec EXCEPT !.cause = cause, !.warned = TRUE], m).rec,
     useFallback |-> useFallback]

\* variant: the catch block switches to fallback and rethrows the error
CatchAndRethrow(rec, cause, m) ==
    [st |-> MemState,
     rec |-> [rec EXCEPT !.pc = "done", !.cause = cause, !.warned = TRUE,
                         !.ret = IF cause = "guard"
                                 THEN Error("Operation timed out")
                                 ELSE rec.mongoRes,
                         !.retFrom = "mongo"],
     useFallback |-> TRUE]

\* variant: the catch block switches to fallback without logging
CatchAndFallbackSilently(rec, cause, m) ==
    [st |-> m.st,
     rec |-> RunOnMem([rec EXCEPT !.cause = cause], m).rec,
     useFallback |-> TRUE]

\* the catch block: console.warn, useFallback = true, then
\* operation(this.fallbackStorage), where m is what the in-memory store's
\* operation does
CatchAndFallback(rec, cause, m) ==
    [st |-> m.st,
     rec |-> RunOnMem([rec EXCEPT !.cause = cause, !.warned = TRUE], m).rec,
     useFallback |-> TRUE]

\* the durable store's operation of the call rec throws err; the error is
\* dropped when the race is over
Thrown(rec, err) ==
    [rec EXCEPT !.mongoPc = "err",
                !.mongoRes = IF rec.pc = "primary" THEN err ELSE NoResult]

\* the state prev after the catch block of call o has had the effect r
Caught(prev, o, r) ==
    [st |-> r.st,
     ops |-> [prev.ops EXCEPT ![o] = r.rec],
     useFallback |-> r.useFallback]

\* the catch block of call o, if it awaits the durable store's operation and
\* that operation is among the thrown ones; prev is the state so far
CatchOne(prev, o, thrown) ==
    IF o \in thrown /\ prev.ops[o].pc = "primary"
    THEN Caught(prev, o,
                CatchAndFallback(prev.ops[o], "threw",
                    MemOp(prev.st, prev.ops[o].kind, prev.ops[o].arg)))
    ELSE prev

\* the catch blocks of the calls whose durable operation has just thrown,
\* run in the order the calls began; uf is useFallback so far
CatchAll(st, f, uf, thrown) ==
    LET upTo[o \in 0..MaxOps] ==
            IF o = 0 THEN [st |-> st, ops |-> f, useFallback |-> uf]
            ELSE CatchOne(upTo[o - 1], o, thrown)
    IN  upTo[MaxOps]

\* variant: useFallback = true is written on the success path as well
TrySucceededSetsFallback(rec, res) ==
    [rec |-> [rec EXCEPT !.pc = "done", !.ret = res,
                         !.retFrom = rec.startPrimary],
     useFallback |-> TRUE,
     connectionTestCompleted |-> TRUE]

\* variant: a success reaffirms the primary designation (useFallback = false)
TrySucceededReaffirmsPrimary(rec, res) ==
    [rec |-> [rec EXCEPT !.pc = "done", !.ret = res,
                         !.retFrom = rec.startPrimary],
     useFallback |-> FALSE,
     connectionTestCompleted |-> TRUE]

\* the try block after the race was won by the primary store's operation:
\* connectionTestCompleted is set, useFallback is not written
TrySucceeded(rec, res) ==
    [rec |-> [rec EXCEPT !.pc = "done", !.ret = res,
                         !.retFrom = rec.startPrimary],
     useFallback |-> useFallback,
     connectionTestCompleted |-> TRUE]

\* the call c as it begins
NewOp(c) ==
    [IdleOp EXCEPT !.kind = c.kind, !.arg = c.arg,
                   !.startFallback = useFallback,
                   !.startPrimary = primaryStorage]

\* executeWithFallback is entered for the call c, recorded as o
Issue(o, c) ==
    /\ IF GoesDirectlyToFallback
       THEN \* go directly to the fallback store
            \E r \in {RunOnMem(NewOp(c), MemOp(MemState, c.kind, c.arg))} :
                /\ ops' = [ops EXCEPT ![o] = r.rec]
                /\ memDonations' = r.st.donations
                /\ donationCurrentId' = r.st.currentId
                /\ memUsers' = r.st.users
                /\ userCurrentId' = r.st.userCurrentId
                /\ UNCHANGED << facadeVars, connVars >>
       ELSE IF primaryStorage = "mem"
       THEN \* the primary store is the in-memory store: it answers at once
            \E m \in {MemOp(MemState, c.kind, c.arg)} :
            \E r \in {TrySucceeded([NewOp(c) EXCEPT !.memCall = c,
                                                    !.memRes = m.res],
                                   m.res)} :
                /\ ops' = [ops EXCEPT ![o] = r.rec]
                /\ memDonations' = m.st.donations
                /\ donationCurrentId' = m.st.currentId
                /\ memUsers' = m.st.users
                /\ userCurrentId' = m.st.userCurrentId
                /\ connectionTestCompleted' = r.connectionTestCompleted
                /\ useFallback' = r.useFallback
                /\ UNCHANGED << primaryStorage, fallbackStorage, connVars >>
       ELSE IF connected
       THEN \* ensureConnected returns, the first database call is sent
            /\ ops' = [ops EXCEPT ![o] =
                         [NewOp(c) EXCEPT !.pc = "primary", !.mongoPc = "db1"]]
            /\ UNCHANGED << facadeVars, connVars, memVars >>
       ELSE IF connectionPromise /\ connPc \in {"connecting", "backoff"}
       THEN \* ensureConnected waits for the pending connection
            /\ ops' = [ops EXCEPT ![o] =
                         [NewOp(c) EXCEPT !.pc = "primary",
                                          !.mongoPc = "ensure"]]
            /\ UNCHANGED << facadeVars, connVars, memVars >>
       ELSE \* ensureConnected throws: the connection promise is rejected
            \* or the field is null; the catch block runs
            \E r \in {CatchAndFallback(
                        [NewOp(c) EXCEPT
                           !.mongoPc = "err",
                           !.mongoRes = IF connectionPromise
                                        THEN ErrConnectionFailed
                                        ELSE ErrNotConnected],
                        "threw",
                        MemOp(MemState, c.kind, c.arg))} :
                /\ ops' = [ops EXCEPT ![o] = r.rec]
                /\ memDonations' = r.st.donations
                /\ donationCurrentId' = r.st.currentId
                /\ memUsers' = r.st.users
                /\ userCurrentId' = r.st.userCurrentId
                /\ useFallback' = r.useFallback
                /\ connectionPromise' = FALSE
                /\ UNCHANGED << primaryStorage, fallbackStorage,
                                connectionTestCompleted, connected,
                                connPc, connectionAttempts >>
    /\ UNCHANGED << probeVars, mongoVars >>

\* a consumer calls an operation of the facade
Call(o, c) ==
    /\ ops[o].pc = "idle"
    /\ \A p \in OpIds : p < o => ops[p].pc # "idle"
    /\ Issue(o, c)
    /\ UNCHANGED callerVars

\* variant: the timer guards the wait for the connection only
GuardFiresOnlyWhileConnecting(o) ==
    /\ ops[o].pc = "primary"
    /\ ops[o].mongoPc = "ensure"
    /\ \E r \in {CatchAndFallback(ops[o], "guard",
                    MemOp(MemState, ops[o].kind, ops[o].arg))} :
           /\ ops' = [ops EXCEPT ![o] = r.rec]
           /\ memDonations' = r.st.donations
           /\ donationCurrentId' = r.st.currentId
           /\ memUsers' = r.st.users
           /\ userCurrentId' = r.st.userCurrentId
           /\ useFallback' = r.useFallback
    /\ UNCHANGED << primaryStorage, fallbackStorage, connectionTestCompleted,
                    probeVars, connVars, mongoVars, callerVars >>

\* the 3000 ms timer of the race settles first
GuardFires(o) ==
    /\ ops[o].pc = "primary"
    /\ \E r \in {CatchAndFallback(ops[o], "guard",
                    MemOp(MemState, ops[o].kind, ops[o].arg))} :
           /\ ops' = [ops EXCEPT ![o] = r.rec]
           /\ memDonations' = r.st.donations
           /\ donationCurrentId' = r.st.currentId
           /\ memUsers' = r.st.users
           /\ userCurrentId' = r.st.userCurrentId
           /\ useFallback' = r.useFallback
    /\ UNCHANGED << primaryStorage, fallbackStorage, connectionTestCompleted,
                    probeVars, connVars, mongoVars, callerVars >>

\* ------------------------------------------------------------------------
\* MongoDBStorage: connection lifecycle (initConnection, ensureConnected)
\* ------------------------------------------------------------------------

Waiters == {o \in OpIds : ops[o].mongoPc = "ensure"}

\* client.connect() resolves: connected = true, the connection promise
\* resolves and every operation waiting in ensureConnected goes on
ConnectSucceeds ==
    /\ connPc = "connecting"
    /\ connPc' = "resolved"
    /\ connected' = TRUE
    /\ connectionPromise' = IF Waiters = {} THEN connectionPromise ELSE FALSE
    /\ ops' = [o \in OpIds |->
                 IF o \in Waiters THEN [ops[o] EXCEPT !.mongoPc = "db1"]
                 ELSE ops[o]]
    \* this.checkAndCreateAdminUser() is started and not awaited
    /\ adminPc' = "find"
    /\ UNCHANGED << facadeVars, probeVars, connectionAttempts,
                    mongoDonations, mongoUsers, objectIds, memVars,
                    callerVars >>

\* variant: a failed attempt is retried once more than the bound allows
ConnectFailsRetriesOnceMore ==
    /\ connPc = "connecting"
    /\ connected' = FALSE
    /\ IF connectionAttempts <= MAX_CONNECTION_ATTEMPTS
       THEN /\ connPc' = "backoff"
            /\ UNCHANGED << connectionPromise, ops, memVars, useFallback >>
       ELSE /\ connPc' = "rejected"
            /\ connectionPromise' =
                 IF Waiters = {} THEN connectionPromise ELSE FALSE
            /\ \E r \in {CatchAll(MemState,
                                    [o \in OpIds |->
                                       IF o \in Waiters
                                       THEN Thrown(ops[o], ErrConnectionFailed)
                                       ELSE ops[o]],
                                    useFallback, Waiters)} :
                   /\ ops' = r.ops
                   /\ memDonations' = r.st.donations
                   /\ donationCurrentId' = r.st.currentId
                   /\ memUsers' = r.st.users
                   /\ userCurrentId' = r.st.userCurrentId
                   /\ useFallback' = r.useFallback
    /\ UNCHANGED << primaryStorage, fallbackStorage, connectionTestCompleted,
                    probeVars, connectionAttempts, mongoVars,
                    callerVars >>

\* client.connect() rejects: retry after 2 seconds while attempts remain,
\* otherwise the connection promise rejects and every waiting operation throws
ConnectFails ==
    /\ connPc = "connecting"
    /\ connected' = FALSE
    /\ IF connectionAttempts < MAX_CONNECTION_ATTEMPTS
       THEN /\ connPc' = "backoff"
            /\ UNCHANGED << connectionPromise, ops, memVars, useFallback >>
       ELSE /\ connPc' = "rejected"
            /\ connectionPromise' =
                 IF Waiters = {} THEN connectionPromise ELSE FALSE
            /\ \E r \in {CatchAll(MemState,
                                    [o \in OpIds |->
                                       IF o \in Waiters
                                       THEN Thrown(ops[o], ErrConnectionFailed)
                                       ELSE ops[o]],
                                    useFallback, Waiters)} :
                   /\ ops' = r.ops
                   /\ memDonations' = r.st.donations
                   /\ donationCurrentId' = r.st.currentId
                   /\ memUsers' = r.st.users
                   /\ userCurrentId' = r.st.userCurrentId
                   /\ useFallback' = r.useFallback
    /\ UNCHANGED << primaryStorage, fallbackStorage, connectionTestCompleted,
                    probeVars, connectionAttempts, mongoVars,
                    callerVars >>

\* the 2 second backoff is over: initConnection is called again
RetryConnect ==
    /\ connPc = "backoff"
    /\ connPc' = "connecting"
    /\ connectionAttempts' = connectionAttempts + 1
    /\ UNCHANGED << facadeVars, probeVars, connected, connectionPromise,
                    mongoVars, memVars, ops, callerVars >>

\* the 10000 ms timer of ensureConnected settles first; the facade's
\* 3000 ms timer, started in the same turn, has fired before it
EnsureTimesOut(o) ==
    /\ ops[o].mongoPc = "ensure"
    /\ ops[o].pc # "primary"
    /\ connectionPromise' = FALSE
    /\ ops' = [ops EXCEPT ![o].mongoPc = "err"]
    /\ UNCHANGED << facadeVars, probeVars, connected, connPc,
                    connectionAttempts, mongoVars, memVars,
                    callerVars >>

\* ------------------------------------------------------------------------
\* MongoDBStorage: database calls of the donation operations
\* ------------------------------------------------------------------------

\* the durable store's operation of call o returns res
MongoReturns(o, res) ==
    IF ops[o].pc = "primary"
    THEN \E r \in {TrySucceeded([ops[o] EXCEPT !.mongoPc = "ok",
                                               !.mongoRes = res],
                                 res)} :
             /\ ops' = [ops EXCEPT ![o] = r.rec]
             /\ connectionTestCompleted' = r.connectionTestCompleted
             /\ useFallback' = r.useFallback
    ELSE \* the race is over: the value is dropped
         /\ ops' = [ops EXCEPT ![o].mongoPc = "ok"]
         /\ UNCHANGED << connectionTestCompleted, useFallback >>

\* variant: losing the race cancels the operation of the durable store, a
\* database call answered afterwards has no effect
DbSucceedsUnlessAbandoned(o) ==
    /\ ops[o].mongoPc \in {"db1", "db2"}
    /\ \E e \in MongoStep(ops[o], MongoState) :
           /\ mongoDonations' =
                IF ops[o].pc = "primary" THEN e.db.donations
                ELSE mongoDonations
           /\ mongoUsers' =
                IF ops[o].pc = "primary" THEN e.db.users ELSE mongoUsers
           /\ objectIds' =
                IF ops[o].pc = "primary" THEN e.db.objectIds ELSE objectIds
           /\ IF e.pc = "ok"
              THEN MongoReturns(o, e.res)
              ELSE /\ ops' = [ops EXCEPT ![o].mongoPc = e.pc,
                                         ![o].mongoTmp = e.tmp]
                   /\ UNCHANGED << connectionTestCompleted, useFallback >>
    /\ UNCHANGED << primaryStorage, fallbackStorage, probeVars,
                    connVars, memVars, adminPc, callerVars >>

\* the database answers the pending call of operation o
DbSucceeds(o) ==
    /\ ops[o].mongoPc \in {"db1", "db2"}
    /\ \E e \in MongoStep(ops[o], MongoState) :
           /\ mongoDonations' = e.db.donations
           /\ mongoUsers' = e.db.users
           /\ objectIds' = e.db.objectIds
           /\ IF e.pc = "ok"
              THEN MongoReturns(o, e.res)
              ELSE /\ ops' = [ops EXCEPT ![o].mongoPc = e.pc,
                                         ![o].mongoTmp = e.tmp]
                   /\ UNCHANGED << connectionTestCompleted, useFallback >>
    /\ UNCHANGED << primaryStorage, fallbackStorage, probeVars,
                    connVars, memVars, adminPc, callerVars >>

\* the database call of operation o fails with a backend error
DbFails(o) ==
    /\ ops[o].mongoPc \in {"db1", "db2"}
    /\ \E r \in {CatchAll(MemState,
                            [ops EXCEPT ![o] = Thrown(ops[o], ErrBackend)],
                            useFallback, {o})} :
           /\ ops' = r.ops
           /\ memDonations' = r.st.donations
           /\ donationCurrentId' = r.st.currentId
           /\ memUsers' = r.st.users
           /\ userCurrentId' = r.st.userCurrentId
           /\ useFallback' = r.useFallback
    /\ UNCHANGED << primaryStorage, fallbackStorage, connectionTestCompleted,
                    probeVars, connVars, mongoVars, callerVars >>

\* the OPERATION_TIMEOUT_MS timer of executeWithTimeout settles first; the
\* facade's 3000 ms timer, started before it, has fired already.  The
\* database call is not cancelled: a write may still be applied.
DbTimesOut(o, applied) ==
    /\ ops[o].mongoPc \in {"db1", "db2"}
    /\ ops[o].pc # "primary"
    /\ ops' = [ops EXCEPT ![o].mongoPc = "err"]
    /\ \E e \in MongoStep(ops[o], MongoState) :
           /\ mongoDonations' =
                IF applied THEN e.db.donations ELSE mongoDonations
           /\ mongoUsers' = IF applied THEN e.db.users ELSE mongoUsers
           /\ objectIds' = IF applied THEN e.db.objectIds ELSE objectIds
    /\ UNCHANGED << facadeVars, probeVars, connVars, memVars, adminPc,
                    callerVars >>

\* ------------------------------------------------------------------------
\* MongoDBStorage: checkAndCreateAdminUser, started when the connection is
\* established
\* ------------------------------------------------------------------------

\* findOne({ username: 'admin@example.com' }) answers
AdminFound ==
    /\ adminPc = "find"
    /\ adminPc' = IF MongoFindByUsername(mongoUsers, AdminHandle) = Undefined
                  THEN "insert" ELSE "done"
    /\ UNCHANGED << facadeVars, probeVars, connVars, mongoDonations,
                    mongoUsers, objectIds, memVars, ops, callerVars >>

\* insertOne of the administrator answers
AdminInserted ==
    /\ adminPc = "insert"
    /\ adminPc' = "done"
    /\ mongoUsers' = Append(mongoUsers,
                            MongoNewUser(objectIds + 1, AdminHandle))
    /\ objectIds' = objectIds + 1
    /\ UNCHANGED << facadeVars, probeVars, connVars, mongoDonations,
                    memVars, ops, callerVars >>

\* variant: the error of checkAndCreateAdminUser reaches the catch block of
\* initConnection
AdminFailsFailsConnection ==
    /\ adminPc \in {"find", "insert"}
    /\ adminPc' = "failed"
    /\ connected' = FALSE
    /\ connPc' = "rejected"
    /\ UNCHANGED << facadeVars, probeVars, connectionPromise,
                    connectionAttempts, mongoDonations,
                    mongoUsers, objectIds, memVars, ops, callerVars >>

\* a database call of checkAndCreateAdminUser fails or its
\* OPERATION_TIMEOUT_MS timer settles first: the error is logged
AdminFails ==
    /\ adminPc \in {"find", "insert"}
    /\ adminPc' = "failed"
    /\ UNCHANGED << facadeVars, probeVars, connVars, mongoDonations,
                    mongoUsers, objectIds, memVars, ops, callerVars >>

\* ------------------------------------------------------------------------
\* Startup connection test (setTimeout of 2000 ms)
\* ------------------------------------------------------------------------

\* Object.assign(storageWrapper, new StorageWrapper(mongoStorage, memStorage))
Promote ==
    /\ primaryStorage' = "mongo"
    /\ fallbackStorage' = "mem"
    /\ useFallback' = FALSE
    /\ connectionTestCompleted' = FALSE

\* the timer fires and mongoStorage.ping() is called: it returns false at
\* once when the store is not connected, else it sends the ping command
ProbeRuns ==
    /\ probePc = "waiting"
    /\ IF ~connected
       THEN /\ pingResult' = "false"
            /\ probePc' = "done"
            /\ Promote
       ELSE /\ probePc' = "pinging"
            /\ UNCHANGED << pingResult, facadeVars >>
    /\ UNCHANGED << mongoStorage, connVars, mongoVars, memVars, ops,
                    callerVars >>

\* the ping command succeeds: ping() returns true
PingSucceeds ==
    /\ probePc = "pinging"
    /\ pingResult' = "true"
    /\ probePc' = "done"
    /\ Promote
    /\ UNCHANGED << mongoStorage, connVars, mongoVars, memVars, ops,
                    callerVars >>

\* the ping command fails or its OPERATION_TIMEOUT_MS timer settles first:
\* ping() catches the error and returns false
PingFails ==
    /\ probePc = "pinging"
    /\ pingResult' = "false"
    /\ probePc' = "done"
    /\ Promote
    /\ UNCHANGED << mongoStorage, connVars, mongoVars, memVars, ops,
                    callerVars >>

\* variant: the durable store is promoted although the connection test
\* timed out
ProbeTimesOutPromotes ==
    /\ probePc = "pinging"
    /\ probePc' = "done"
    /\ Promote
    /\ UNCHANGED << pingResult, mongoStorage, connVars,
                    mongoVars, memVars, ops, callerVars >>

\* the ping command hangs and the 5000 ms timer of the connection test is
\* run before ping()'s own timer of the same delay has been handled
ProbeTimesOut ==
    /\ probePc = "pinging"
    /\ probePc' = "done"
    /\ UNCHANGED << pingResult, mongoStorage, facadeVars, connVars,
                    mongoVars, memVars, ops, callerVars >>

\* ------------------------------------------------------------------------
\* Specification of the server
\* ------------------------------------------------------------------------

Next ==
    \/ \E o \in OpIds, c \in Calls : Call(o, c)
    \/ \E o \in OpIds : GuardFires(o)
    \/ ConnectSucceeds
    \/ ConnectFails
    \/ RetryConnect
    \/ \E o \in OpIds : EnsureTimesOut(o)
    \/ \E o \in OpIds : DbSucceeds(o)
    \/ \E o \in OpIds : DbFails(o)
    \/ \E o \in OpIds, applied \in BOOLEAN : DbTimesOut(o, applied)
    \/ ProbeRuns
    \/ PingSucceeds
    \/ PingFails
    \/ ProbeTimesOut

Spec == Init /\ [][Next]_vars

\* timers always fire: the guard of a pending race is eventually handled
FairSpec == Spec /\ \A o \in OpIds : WF_vars(GuardFires(o))

TypeOK ==
    /\ useFallback \in BOOLEAN
    /\ primaryStorage \in {"mem", "mongo"}
    /\ fallbackStorage = "mem"
    /\ connPc \in {"none", "connecting", "backoff", "resolved", "rejected"}
    /\ connectionAttempts \in 0..MAX_CONNECTION_ATTEMPTS
    /\ \A o \in OpIds : ops[o].pc \in {"idle", "primary", "done"}

\* ------------------------------------------------------------------------
\* Specification of the server with a consumer that creates donations and
\* looks them up by receipt number, one call after the other
\* ------------------------------------------------------------------------

LookupCalls ==
    { [kind |-> "createDonation", arg |-> rn] : rn \in DonationInputs }
      \cup { [kind |-> "getDonationByReceiptNumber", arg |-> rn] :
               rn \in DonationInputs }

\* the consumer calls the facade after its previous calls have returned
CallInTurn(o, c) ==
    /\ \A p \in OpIds : p < o => ops[p].pc = "done"
    /\ Call(o, c)

NextLookup ==
    \/ \E o \in OpIds, c \in LookupCalls : CallInTurn(o, c)
    \/ \E o \in OpIds : GuardFires(o)
    \/ ConnectSucceeds
    \/ ConnectFails
    \/ RetryConnect
    \/ \E o \in OpIds : EnsureTimesOut(o)
    \/ \E o \in OpIds : DbSucceeds(o)
    \/ \E o \in OpIds : DbFails(o)
    \/ \E o \in OpIds, applied \in BOOLEAN : DbTimesOut(o, applied)
    \/ ProbeRuns
    \/ PingSucceeds
    \/ PingFails
    \/ ProbeTimesOut

SpecLookup == Init /\ [][NextLookup]_vars

\* ------------------------------------------------------------------------
\* Specification of the server with consumers that create accounts, look
\* them up by id and list them
\* ------------------------------------------------------------------------

\* the ids consumers look up: the id of the first account a consumer creates
\* in the in-memory store, and the id of the first account of the durable
\* store
LookedUpIds == {NumberId(2), ObjectIdString(1)}

AccountCalls ==
    { [kind |-> "createUser", arg |-> << "staff@example.com" >>],
      [kind |-> "getUsers", arg |-> << >>] }
      \cup { [kind |-> "getUser", arg |-> << id >>] : id \in LookedUpIds }

NextAccountOps ==
    \/ \E o \in OpIds, c \in AccountCalls : Call(o, c)
    \/ \E o \in OpIds : GuardFires(o)
    \/ ConnectSucceeds
    \/ ConnectFails
    \/ RetryConnect
    \/ \E o \in OpIds : EnsureTimesOut(o)
    \/ \E o \in OpIds : DbSucceeds(o)
    \/ \E o \in OpIds : DbFails(o)
    \/ \E o \in OpIds, applied \in BOOLEAN : DbTimesOut(o, applied)
    \/ ProbeRuns
    \/ PingSucceeds
    \/ PingFails
    \/ ProbeTimesOut
    \/ AdminFound
    \/ AdminInserted
    \/ AdminFails

SpecAccountOps == Init /\ [][NextAccountOps]_vars

\* ------------------------------------------------------------------------
\* Specification of the administrator's bootstrap: consumers create
\* accounts through the facade while checkAndCreateAdminUser runs.
\* ------------------------------------------------------------------------

\* storage.createUser({username: "staff@example.com", ...})
BootstrapCalls ==
    { [kind |-> "createUser", arg |-> << "staff@example.com" >>] }

NextBootstrap ==
    \/ \E o \in OpIds, c \in BootstrapCalls : Call(o, c)
    \/ \E o \in OpIds : GuardFires(o)
    \/ ConnectSucceeds
    \/ ConnectFails
    \/ RetryConnect
    \/ \E o \in OpIds : EnsureTimesOut(o)
    \/ \E o \in OpIds : DbSucceeds(o)
    \/ \E o \in OpIds : DbFails(o)
    \/ \E o \in OpIds, applied \in BOOLEAN : DbTimesOut(o, applied)
    \/ ProbeRuns
    \/ PingSucceeds
    \/ PingFails
    \/ ProbeTimesOut
    \/ AdminFound
    \/ AdminInserted
    \/ AdminFails

SpecBootstrap == Init /\ [][NextBootstrap]_vars

\* ------------------------------------------------------------------------
\* Specification of the writing operations: consumers create donations and
\* create, deactivate and delete accounts through the facade.  The routes
\* pass parseInt(req.params.id) as the account id.  The database calls of
\* checkAndCreateAdminUser stay unanswered here.
\* ------------------------------------------------------------------------

WriteCalls ==
    { [kind |-> "createDonation", arg |-> rn] : rn \in DonationInputs }
      \cup { [kind |-> "createUser", arg |-> << "staff@example.com" >>],
             [kind |-> "updateUserStatus", arg |-> << NumberId(1), FALSE >>],
             [kind |-> "deleteUser", arg |-> << NumberId(1) >>] }

NextWrites ==
    \/ \E o \in OpIds, c \in WriteCalls : Call(o, c)
    \/ \E o \in OpIds : GuardFires(o)
    \/ ConnectSucceeds
    \/ ConnectFails
    \/ RetryConnect
    \/ \E o \in OpIds : EnsureTimesOut(o)
    \/ \E o \in OpIds : DbSucceeds(o)
    \/ \E o \in OpIds : DbFails(o)
    \/ \E o \in OpIds, applied \in BOOLEAN : DbTimesOut(o, applied)
    \/ ProbeRuns
    \/ PingSucceeds
    \/ PingFails
    \/ ProbeTimesOut

SpecWrites == Init /\ [][NextWrites]_vars

\* ------------------------------------------------------------------------
\* Specification of the in-memory store called directly: donations are
\* created one by one and getLastReceiptNumber is asked in between
\* ------------------------------------------------------------------------

\* memStorage.createDonation({ receiptNumber: rn, ... })
ReceiptCreate(rn) ==
    /\ Len(memDonations) < MaxStored
    /\ \E r \in {MemOp(MemState, "createDonation", rn)} :
           /\ memDonations' = r.st.donations
           /\ donationCurrentId' = r.st.currentId
           /\ memUsers' = r.st.users
           /\ userCurrentId' = r.st.userCurrentId
    /\ lastReceipt' = NoResult
    /\ UNCHANGED << facadeVars, probeVars, connVars, mongoVars, ops,
                    mongoLastReceipt, mongoAccount, memCalls,
                    routeVars >>

\* memStorage.getLastReceiptNumber()
ReceiptGetLast ==
    /\ lastReceipt' = MemOp(MemState, "getLastReceiptNumber", <<>>).res
    /\ UNCHANGED << facadeVars, probeVars, connVars, mongoVars, memVars,
                    ops, mongoLastReceipt, mongoAccount, memCalls,
                    routeVars >>

NextReceipt ==
    \/ \E rn \in ReceiptNumbers : ReceiptCreate(rn)
    \/ ReceiptGetLast

SpecReceipt == Init /\ [][NextReceipt]_vars

\* ------------------------------------------------------------------------
\* POST /api/users
\* ------------------------------------------------------------------------

\* the handler of request r has a continuation in the microtask queue: the
\* facade call it awaits has returned.  Microtasks run before any timer or
\* input/output callback.
Resumes(r) == reqs[r].pc \in {"checking", "creating"} /\ ops[r].pc = "done"
NoneResumes == \A r \in OpIds : ~Resumes(r)

\* the durable operation started by the last facade call of request r has
\* not settled
DurablePending(r) == ops[r].mongoPc \in {"ensure", "db1", "db2"}

\* the request arrives with login-handle h:
\* await storage.getUserByUsername(newUser.username)
PostUsers(r, h) ==
    /\ NoneResumes
    /\ reqs[r].pc = "idle"
    /\ ops[r].pc = "idle"
    /\ \A p \in OpIds : p < r => reqs[p].pc # "idle"
    /\ Issue(r, [kind |-> "getUserByUsername", arg |-> <<h>>])
    /\ reqs' = [reqs EXCEPT ![r] = [pc |-> "checking", handle |-> h,
                                    status |-> 0]]
    /\ UNCHANGED << clients, deleteReq, directVars >>

\* getUserByUsername has returned: 400 if an account was found, otherwise
\* await storage.createUser(newUser).  The call is recorded in place of the
\* one that returned; if the durable operation of that one is still pending,
\* the facade is in fallback and createUser is served at once.
PostUsersChecked(r) ==
    /\ reqs[r].pc = "checking"
    /\ ops[r].pc = "done"
    /\ IF ops[r].ret.tag = "user"
       THEN /\ reqs' = [reqs EXCEPT ![r].pc = "done", ![r].status = 400]
            /\ UNCHANGED << facadeVars, probeVars, connVars, mongoVars,
                            memVars, ops >>
       ELSE IF DurablePending(r)
       THEN /\ GoesDirectlyToFallback
            /\ \E m \in {MemOp(MemState, "createUser",
                                << reqs[r].handle >>)} :
                   /\ memDonations' = m.st.donations
                   /\ donationCurrentId' = m.st.currentId
                   /\ memUsers' = m.st.users
                   /\ userCurrentId' = m.st.userCurrentId
            /\ reqs' = [reqs EXCEPT ![r].pc = "done", ![r].status = 201]
            /\ UNCHANGED << facadeVars, probeVars, connVars, mongoVars,
                            ops >>
       ELSE /\ Issue(r, [kind |-> "createUser",
                         arg |-> << reqs[r].handle >>])
            /\ reqs' = [reqs EXCEPT ![r].pc = "creating"]
    /\ UNCHANGED << clients, deleteReq, directVars >>

\* createUser has returned: 201
PostUsersCreated(r) ==
    /\ reqs[r].pc = "creating"
    /\ ops[r].pc = "done"
    /\ reqs' = [reqs EXCEPT ![r].pc = "done", ![r].status = 201]
    /\ UNCHANGED << facadeVars, probeVars, connVars, mongoVars, memVars,
                    ops, clients, deleteReq, directVars >>

\* timers and input/output callbacks run when no continuation is queued
NextAccounts ==
    \/ \E r \in OpIds, h \in Handles : PostUsers(r, h)
    \/ \E r \in OpIds : PostUsersChecked(r)
    \/ \E r \in OpIds : PostUsersCreated(r)
    \/ NoneResumes /\ \E o \in OpIds : GuardFires(o)
    \/ NoneResumes /\ ConnectSucceeds
    \/ NoneResumes /\ ConnectFails
    \/ NoneResumes /\ RetryConnect
    \/ NoneResumes /\ \E o \in OpIds : EnsureTimesOut(o)
    \/ NoneResumes /\ \E o \in OpIds : DbSucceeds(o)
    \/ NoneResumes /\ \E o \in OpIds : DbFails(o)
    \/ NoneResumes /\ \E o \in OpIds, applied \in BOOLEAN :
                         DbTimesOut(o, applied)
    \/ NoneResumes /\ ProbeRuns
    \/ NoneResumes /\ PingSucceeds
    \/ NoneResumes /\ PingFails
    \/ NoneResumes /\ ProbeTimesOut
    \/ NoneResumes /\ AdminFound
    \/ NoneResumes /\ AdminInserted
    \/ NoneResumes /\ AdminFails

SpecAccounts == Init /\ [][NextAccounts]_vars

\* ------------------------------------------------------------------------
\* Specification of both stores called directly: every donation given to
\* the in-memory store is given to the connected durable store as well, and
\* getLastReceiptNumber is asked of each
\* ------------------------------------------------------------------------

\* mongoStorage.createDonation of the next donation the in-memory store
\* already holds, with no other call on the durable store in progress
MongoCreateDirect ==
    /\ connected
    /\ Len(mongoDonations) < Len(memDonations)
    /\ mongoDonations' =
         Append(mongoDonations,
                [id |-> MongoNextId(mongoDonations),
                 receiptNumber |->
                   memDonations[Len(mongoDonations) + 1].receiptNumber])
    /\ mongoLastReceipt' = NoResult
    /\ UNCHANGED << facadeVars, probeVars, connVars, mongoUsers, objectIds,
                    adminPc, memVars, ops, lastReceipt, mongoAccount, memCalls,
                    routeVars >>

\* mongoStorage.getLastReceiptNumber()
MongoGetLastDirect ==
    /\ connected
    /\ mongoLastReceipt' =
         [tag |-> "last", val |-> MongoGetLastReceiptNumber(mongoDonations)]
    /\ UNCHANGED << facadeVars, probeVars, connVars, mongoVars, memVars, ops,
                    lastReceipt, mongoAccount, memCalls,
                    routeVars >>

NextLastReceipt ==
    \/ \E rn \in ReceiptNumbers : ReceiptCreate(rn)
    \/ ReceiptGetLast
    \/ ConnectSucceeds
    \/ MongoCreateDirect
    \/ MongoGetLastDirect

SpecLastReceipt == Init /\ [][NextLastReceipt]_vars

\* ------------------------------------------------------------------------
\* Specification of both stores called directly while the connection of the
\* durable store is established or given up
\* ------------------------------------------------------------------------

\* mongoStorage.getLastReceiptNumber() while the store is not connected and
\* no connection attempt is pending: ensureConnected throws, at once, the
\* rejection of the connection promise or, the promise cleared, that the
\* store is not connected
MongoGetLastUnconnected ==
    /\ mongoStorage = "created"
    /\ ~connected
    /\ ~(connectionPromise /\ connPc \in {"connecting", "backoff"})
    /\ mongoLastReceipt' =
         IF connectionPromise THEN ErrConnectionFailed ELSE ErrNotConnected
    /\ connectionPromise' = FALSE
    /\ UNCHANGED << facadeVars, probeVars, connected, connPc,
                    connectionAttempts, mongoVars, memVars, ops,
                    lastReceipt, mongoAccount, memCalls,
                    routeVars >>

NextConnection ==
    \/ \E rn \in ReceiptNumbers : ReceiptCreate(rn)
    \/ ReceiptGetLast
    \/ ConnectSucceeds
    \/ ConnectFails
    \/ RetryConnect
    \/ MongoCreateDirect
    \/ MongoGetLastDirect
    \/ MongoGetLastUnconnected

SpecConnection == Init /\ [][NextConnection]_vars

\* ------------------------------------------------------------------------
\* Specification of the durable store called directly by one caller that
\* awaits each call, also while a connection attempt is pending
\* ------------------------------------------------------------------------

\* the caller's call is inside ensureConnected, awaiting the race between
\* the connection promise and the 10000 ms timer
Waiting == [tag |-> "waiting", val |-> << >>]

\* the connection is still being established
ConnectionPending == ~connected /\ connPc \in {"connecting", "backoff"}

\* mongoStorage.getLastReceiptNumber() while the connection promise is set
\* and unsettled: ensureConnected awaits the race
EnsureWaits ==
    /\ mongoLastReceipt # Waiting
    /\ ConnectionPending /\ connectionPromise
    /\ mongoLastReceipt' = Waiting
    /\ UNCHANGED << facadeVars, probeVars, connVars, mongoVars, memVars, ops,
                    lastReceipt, mongoAccount, memCalls,
                    routeVars >>

\* mongoStorage.getLastReceiptNumber() while no wait is possible or needed:
\* connected, or the connection promise settled or cleared
EnsureReturnsOrThrows ==
    /\ mongoLastReceipt # Waiting
    /\ mongoStorage = "created"
    /\ ~(ConnectionPending /\ connectionPromise)
    /\ mongoLastReceipt' =
         IF connected
         THEN [tag |-> "last",
               val |-> MongoGetLastReceiptNumber(mongoDonations)]
         ELSE IF connectionPromise THEN ErrConnectionFailed
         ELSE ErrNotConnected
    /\ connectionPromise' = IF connected THEN connectionPromise ELSE FALSE
    /\ UNCHANGED << facadeVars, probeVars, connected, connPc,
                    connectionAttempts, mongoVars, memVars, ops,
                    lastReceipt, mongoAccount, memCalls,
                    routeVars >>

\* the connection promise settles while the call waits for it: the promise
\* is cleared and the call goes on, or throws the rejection
EnsureWaitEnds ==
    /\ mongoLastReceipt = Waiting
    /\ connPc \in {"resolved", "rejected"}
    /\ connectionPromise' = FALSE
    /\ mongoLastReceipt' =
         IF connected
         THEN [tag |-> "last",
               val |-> MongoGetLastReceiptNumber(mongoDonations)]
         ELSE ErrConnectionFailed
    /\ UNCHANGED << facadeVars, probeVars, connected, connPc,
                    connectionAttempts, mongoVars, memVars, ops,
                    lastReceipt, mongoAccount, memCalls,
                    routeVars >>

\* the 10000 ms timer settles first: the promise is cleared, the call throws
EnsureWaitTimesOut ==
    /\ mongoLastReceipt = Waiting
    /\ ConnectionPending
    /\ connectionPromise' = FALSE
    /\ mongoLastReceipt' = ErrConnectionTimeout
    /\ UNCHANGED << facadeVars, probeVars, connected, connPc,
                    connectionAttempts, mongoVars, memVars, ops,
                    lastReceipt, mongoAccount, memCalls,
                    routeVars >>

NextEnsure ==
    \/ \E rn \in ReceiptNumbers : ReceiptCreate(rn)
    \/ ConnectSucceeds
    \/ ConnectFails
    \/ RetryConnect
    \/ MongoCreateDirect
    \/ EnsureWaits
    \/ EnsureReturnsOrThrows
    \/ EnsureWaitEnds
    \/ EnsureWaitTimesOut

SpecEnsure == Init /\ [][NextEnsure]_vars

\* ------------------------------------------------------------------------
\* Specification of the account operations of the connected durable store
\* called directly, on a users collection that holds documents of other
\* versions of the program
\* ------------------------------------------------------------------------

\* the field id of the documents: none, a number, or a string
StoredIds == {NoId, NumberId(7)} \cup {StringId(k) : k \in 1..Len(IdStrings)}

\* the ids the operations are called with
ResolveIds ==
    {NumberId(7), ObjectIdString(1), ObjectIdString(2)}
      \cup {StringId(k) : k \in 1..Len(IdStrings)}

\* the document with _id oid and field id i
StoredUser(oid, i) ==
    [oid |-> oid, username |-> "staff@example.com", isActive |-> TRUE,
     id |-> i]

\* the store is connected; the collection holds up to two documents
InitResolve ==
    /\ useFallback = FALSE
    /\ primaryStorage = "mem"
    /\ fallbackStorage = "mem"
    /\ connectionTestCompleted = FALSE
    /\ mongoStorage = "created"
    /\ probePc = "waiting"
    /\ pingResult = "none"
    /\ connected = TRUE
    /\ connectionPromise = TRUE
    /\ connPc = "resolved"
    /\ connectionAttempts = 1
    /\ mongoDonations = << >>
    /\ memDonations = << >>
    /\ donationCurrentId = 1
    /\ ops = [o \in OpIds |-> IdleOp]
    /\ lastReceipt = NoResult
    /\ memUsers = << MemNewUser(1, AdminHandle) >>
    /\ userCurrentId = 2
    /\ mongoUsers \in
         {<< >>} \cup {<< StoredUser(1, i) >> : i \in StoredIds}
           \cup {<< StoredUser(1, i), StoredUser(2, j) >> :
                   i \in StoredIds, j \in StoredIds}
    /\ objectIds = Len(mongoUsers)
    /\ adminPc = "find"
    /\ mongoLastReceipt = NoResult
    /\ mongoAccount = NoResult
    /\ memCalls = << >>
    /\ reqs = [r \in OpIds |-> IdleReq]
    /\ clients = [c \in OpIds |-> IdleClient]
    /\ deleteReq = NoDelete

\* mongoStorage.getUser(id)
GetUserDirect(id) ==
    /\ connected
    /\ mongoAccount' = MongoGetUser(mongoUsers, id)
    /\ UNCHANGED << facadeVars, probeVars, connVars, mongoVars, memVars, ops,
                    lastReceipt, mongoLastReceipt, memCalls, routeVars >>

\* mongoStorage.updateUserStatus(id, isActive)
UpdateUserStatusDirect(id, isActive) ==
    /\ connected
    /\ \E e \in MongoUpdateUserStatus(mongoUsers, id, isActive) :
           /\ mongoUsers' = e.users
           /\ mongoAccount' = e.res
    /\ UNCHANGED << facadeVars, probeVars, connVars, mongoDonations,
                    objectIds, adminPc, memVars, ops, lastReceipt,
                    mongoLastReceipt, memCalls, routeVars >>

\* mongoStorage.deleteUser(id)
DeleteUserDirect(id) ==
    /\ connected
    /\ mongoUsers' = MongoDeleteUser(mongoUsers, id)
    /\ mongoAccount' = [tag |-> "void", val |-> << >>]
    /\ UNCHANGED << facadeVars, probeVars, connVars, mongoDonations,
                    objectIds, adminPc, memVars, ops, lastReceipt,
                    mongoLastReceipt, memCalls, routeVars >>

NextResolve ==
    \/ \E id \in ResolveIds : GetUserDirect(id)
    \/ \E id \in ResolveIds, isActive \in BOOLEAN :
         UpdateUserStatusDirect(id, isActive)
    \/ \E id \in ResolveIds : DeleteUserDirect(id)

SpecResolve == InitResolve /\ [][NextResolve]_vars

\* ------------------------------------------------------------------------
\* Specification of the in-memory store called directly: a caller creates,
\* deactivates and deletes accounts and creates donations, one call after
\* the other, at most MaxStored + 1 calls.
\* ------------------------------------------------------------------------

\* the call and the id it returned (create) or was given (update, delete)
MemCalled(kind, id) == Append(memCalls, [kind |-> kind, id |-> id.n])

\* memStorage.createUser({username: h, ...})
MemCreateUserDirect(h) ==
    /\ Len(memCalls) <= MaxStored
    /\ \E m \in {MemOp(MemState, "createUser", << h >>)} :
           /\ memUsers' = m.st.users
           /\ userCurrentId' = m.st.userCurrentId
           /\ memCalls' = MemCalled("createUser", m.res.val.id)
    /\ UNCHANGED << facadeVars, probeVars, connVars, mongoVars, ops,
                    memDonations, donationCurrentId, lastReceipt,
                    mongoLastReceipt, mongoAccount, routeVars >>

\* memStorage.updateUserStatus(id, isActive)
MemUpdateUserStatusDirect(id, isActive) ==
    /\ Len(memCalls) <= MaxStored
    /\ \E m \in {MemOp(MemState, "updateUserStatus", << id, isActive >>)} :
           /\ memUsers' = m.st.users
           /\ userCurrentId' = m.st.userCurrentId
    /\ memCalls' = MemCalled("updateUserStatus", id)
    /\ UNCHANGED << facadeVars, probeVars, connVars, mongoVars, ops,
                    memDonations, donationCurrentId, lastReceipt,
                    mongoLastReceipt, mongoAccount, routeVars >>

\* memStorage.deleteUser(id)
MemDeleteUserDirect(id) ==
    /\ Len(memCalls) <= MaxStored
    /\ \E m \in {MemOp(MemState, "deleteUser", << id >>)} :
           /\ memUsers' = m.st.users
           /\ userCurrentId' = m.st.userCurrentId
    /\ memCalls' = MemCalled("deleteUser", id)
    /\ UNCHANGED << facadeVars, probeVars, connVars, mongoVars, ops,
                    memDonations, donationCurrentId, lastReceipt,
                    mongoLastReceipt, mongoAccount, routeVars >>

\* memStorage.createDonation({receiptNumber: rn, ...})
MemCreateDonationDirect(rn) ==
    /\ Len(memCalls) <= MaxStored
    /\ \E m \in {MemOp(MemState, "createDonation", rn)} :
           /\ memDonations' = m.st.donations
           /\ donationCurrentId' = m.st.currentId
           /\ memCalls' = Append(memCalls, [kind |-> "createDonation",
                                            id |-> m.res.val.id])
    /\ UNCHANGED << facadeVars, probeVars, connVars, mongoVars, ops,
                    memUsers, userCurrentId, lastReceipt,
                    mongoLastReceipt, mongoAccount, routeVars >>

\* the ids updateUserStatus is called with
UpdatedIds == {NumberId(k) : k \in 1..2}

\* the ids deleteUser is called with
DeletedIds == {NumberId(k) : k \in 1..MaxStored}

NextMem ==
    \/ MemCreateUserDirect("staff@example.com")
    \/ \E id \in UpdatedIds : MemUpdateUserStatusDirect(id, FALSE)
    \/ \E id \in DeletedIds : MemDeleteUserDirect(id)
    \/ \E rn \in DonationInputs : MemCreateDonationDirect(rn)

SpecMem == Init /\ [][NextMem]_vars

\* ------------------------------------------------------------------------
\* Specification of DELETE /api/users/:id: the request carries an id that
\* getUsers of the active store returned; the facade hands getUser and
\* deleteUser to that store and the store answers both.  The durable store
\* is connected and holds up to two accounts, the in-memory store holds
\* the administrator and the accounts created meanwhile.
\* ------------------------------------------------------------------------

\* the ids getUsers of the store returns
ListedIds(store) ==
    IF store = "mem" THEN {memUsers[i].id : i \in 1..Len(memUsers)}
    ELSE {MongoUserOut(mongoUsers[i]).id : i \in 1..Len(mongoUsers)}

\* the decimal digits the 24 hexadecimal characters of an _id begin with,
\* when they begin with a digit
ObjectIdLeadingDigits == 65

\* parseInt(req.params.id), for the id of an account as the client was
\* given it: the number itself, and for an _id either NaN (it begins with
\* a letter) or the number its leading digits spell
RouteParseInt(id) ==
    IF id.shape = "number" THEN {id.n} ELSE {NaN, ObjectIdLeadingDigits}

\* storage.getUser(id) of the route, answered by the store
RouteGetUser(store, n) ==
    IF store = "mem" THEN MemGetUser(memUsers, NumberId(n))
    ELSE MongoGetUser(mongoUsers, NumberId(n))

\* the handler of DELETE /api/users/:id: 400 when parseInt gives NaN, 404
\* when getUser finds no account, else deleteUser and 200
DeleteUsersRoute(store, id) ==
    /\ id \in ListedIds(store)
    /\ \E n \in RouteParseInt(id) :
         IF n = NaN
         THEN /\ deleteReq' = [store |-> store, id |-> id, status |-> 400]
              /\ UNCHANGED << memUsers, mongoUsers >>
         ELSE IF RouteGetUser(store, n) = Undefined
         THEN /\ deleteReq' = [store |-> store, id |-> id, status |-> 404]
              /\ UNCHANGED << memUsers, mongoUsers >>
         ELSE /\ deleteReq' = [store |-> store, id |-> id, status |-> 200]
              /\ memUsers' = IF store = "mem"
                             THEN MemDeleteUser(memUsers, NumberId(n))
                             ELSE memUsers
              /\ mongoUsers' = IF store = "mem" THEN mongoUsers
                               ELSE MongoDeleteUser(mongoUsers, NumberId(n))
    /\ UNCHANGED << facadeVars, probeVars, connVars, mongoDonations,
                    objectIds, adminPc, memDonations, donationCurrentId,
                    userCurrentId, ops, directVars, reqs, clients >>

\* the ids a store can have returned
RequestIds ==
    {NumberId(k) : k \in 1..(MaxStored + 2)}
      \cup {ObjectIdString(1), ObjectIdString(2)}

NextDelete ==
    \/ MemCreateUserDirect("staff@example.com")
    \/ \E store \in {"mem", "mongo"}, id \in RequestIds :
         DeleteUsersRoute(store, id)

SpecDelete == InitResolve /\ [][NextDelete]_vars

\* ------------------------------------------------------------------------
\* GET /api/next-receipt-number and POST /api/donations, while the in-memory
\* store answers the facade (before the startup promotion, or in fallback)
\* ------------------------------------------------------------------------

\* the decimal digit of a number below ten
DigitOf(n) == CHOOSE c \in Digits : CharRank(c) = n

\* Number.prototype.toString of a natural number
RECURSIVE toString(_)
toString(n) ==
    IF n < 10 THEN << DigitOf(n) >>
    ELSE Append(toString(n \div 10), DigitOf(n % 10))

\* the receipt number the handler of GET /api/next-receipt-number answers,
\* given what getLastReceiptNumber returned
NextReceiptNumber(lastReceiptNumber) ==
    IF lastReceiptNumber = Absent THEN <<"1", "0", "0", "1">>
    ELSE IF IsNumeric(lastReceiptNumber)
    THEN toString(parseInt(lastReceiptNumber) + 1)
    ELSE <<"1", "0", "0", "1">>

\* executeWithFallback is answered by the in-memory store without a
\* suspension: in fallback, or with the in-memory store as primary
AnsweredByMem == GoesDirectlyToFallback \/ primaryStorage = "mem"

\* client c asks for the next receipt number
GetNextReceiptNumber(c) ==
    /\ clients[c].pc = "idle"
    /\ AnsweredByMem
    /\ clients' =
         [clients EXCEPT ![c] =
            [pc |-> "asked",
             receiptNumber |->
               NextReceiptNumber(
                 MemOp(MemState, "getLastReceiptNumber", <<>>).res.val)]]
    /\ connectionTestCompleted' =
         IF GoesDirectlyToFallback THEN connectionTestCompleted ELSE TRUE
    /\ UNCHANGED << useFallback, primaryStorage, fallbackStorage, probeVars,
                    connVars, mongoVars, memVars, ops, directVars, reqs,
                    deleteReq >>

\* client c submits its donation with the receipt number it was given
PostDonation(c) ==
    /\ clients[c].pc = "asked"
    /\ AnsweredByMem
    /\ Len(memDonations) < MaxStored
    /\ \E m \in {MemOp(MemState, "createDonation",
                        clients[c].receiptNumber)} :
           /\ memDonations' = m.st.donations
           /\ donationCurrentId' = m.st.currentId
           /\ memUsers' = m.st.users
           /\ userCurrentId' = m.st.userCurrentId
    /\ clients' = [clients EXCEPT ![c] = IdleClient]
    /\ connectionTestCompleted' =
         IF GoesDirectlyToFallback THEN connectionTestCompleted ELSE TRUE
    /\ UNCHANGED << useFallback, primaryStorage, fallbackStorage, probeVars,
                    connVars, mongoVars, ops, directVars, reqs,
                    deleteReq >>

NextNumbering ==
    \/ \E c \in OpIds : GetNextReceiptNumber(c)
    \/ \E c \in OpIds : PostDonation(c)

SpecNumbering == Init /\ [][NextNumbering]_vars

\* ------------------------------------------------------------------------
\* Properties
\* ------------------------------------------------------------------------

StoredReceipts == {memDonations[i].receiptNumber : i \in 1..Len(memDonations)}

\* the numerically greatest value among digit strings
NumericMax(S) == CHOOSE n \in {parseInt(r) : r \in S} :
                     \A r \in S : parseInt(r) <= n

\* the lexicographically greatest string
LexMax(S) == CHOOSE r \in S : \A q \in S : localeCompare(q, r) <= 0

\* C10: in-memory getLastReceiptNumber returns the numerically greatest
\* receipt number when all stored receipt numbers are digit strings, the
\* lexicographically greatest one as soon as one of them is not a digit
\* string, and the absent value on an empty store.
C10_LastReceiptNumericElseLexicographic ==
    lastReceipt.tag = "last" =>
        IF StoredReceipts = {} THEN lastReceipt.val = Absent
        ELSE IF \A r \in StoredReceipts : IsNumeric(r)
        THEN /\ lastReceipt.val \in StoredReceipts
             /\ parseInt(lastReceipt.val) = NumericMax(StoredReceipts)
        ELSE lastReceipt.val = LexMax(StoredReceipts)

\* ------------------------------------------------------------------------
\* Properties of the facade
\* ------------------------------------------------------------------------

Started(o) == ops[o].pc # "idle"
Done(o) == ops[o].pc = "done"

IsPrefix(a, b) == Len(a) <= Len(b) /\ SubSeq(b, 1, Len(a)) = a

\* the call issued as o, as an operation with its arguments
CallOf(rec) == [kind |-> rec.kind, arg |-> rec.arg]

\* the result res was produced by the in-memory store holding donations
\* for the call rec
ProducedByMem(rec, res, donations) ==
    CASE rec.kind = "createDonation" ->
           /\ res.tag = "donation"
           /\ res.val.receiptNumber = rec.arg
           /\ res.val \in DocSet(donations)
      [] rec.kind = "getDonations" ->
           res.tag = "list" /\ IsPrefix(res.val, donations)
      [] rec.kind = "getLastReceiptNumber" ->
           res.tag = "last"

\* C1: when the attempt on the primary store throws or the 3-second guard
\* settles first, for an operation begun outside fallback, the facade sets
\* useFallback, re-issues the same operation with the same arguments on the
\* in-memory store, and the caller receives the in-memory store's result.
C1_FailureSwitchesAndRetriesOnMem ==
    [][\A o \in OpIds :
         (~Done(o) /\ ops'[o].pc = "done" /\ ~ops'[o].startFallback
            /\ ops'[o].cause # "none")
         => /\ useFallback'
            /\ ops'[o].memCall = CallOf(ops'[o])
            /\ ops'[o].retFrom = "mem"
            /\ SameResult(ops'[o].ret, ops'[o].memRes)
            /\ ProducedByMem(ops'[o], ops'[o].ret, memDonations')]_vars

C1_Witness ==
    /\ \E o \in OpIds : Done(o) /\ ops[o].cause = "guard"
                          /\ ops[o].startPrimary = "mongo"
    /\ \E o \in OpIds : Done(o) /\ ops[o].cause = "threw"
                          /\ ops[o].startPrimary = "mongo"

\* no attempt on the primary store has thrown or lost against the guard
NoAttemptFailed == \A o \in OpIds : ops[o].cause = "none"

\* C2: as long as every attempt on the connected durable store completes
\* successfully before the guard deadline, useFallback stays false and each
\* caller receives the durable store's result.
C2_SuccessKeepsPrimaryDurable ==
    (primaryStorage = "mongo" /\ NoAttemptFailed)
    => /\ ~useFallback
       /\ \A o \in OpIds :
            (Done(o) /\ ops[o].startPrimary = "mongo")
            => /\ ops[o].retFrom = "mongo"
               /\ ops[o].mongoPc = "ok"
               /\ ops[o].memCall = NoCall
               /\ SameResult(ops[o].ret, ops[o].mongoRes)
               /\ ops[o].ret.tag \in {"donation", "list"}

C2_Witness ==
    /\ primaryStorage = "mongo" /\ NoAttemptFailed /\ ~useFallback
    /\ \A o \in OpIds : Done(o) /\ ops[o].retFrom = "mongo"

\* C3: once useFallback is true it stays true, whatever the durable store
\* does afterwards; only the startup promotion may reset it, and the
\* startup promotion runs at most once.
C3_FallbackIsMonotonic ==
    [][/\ (useFallback /\ ~useFallback')
            => (probePc \in {"waiting", "pinging"} /\ probePc' = "done")
       /\ (probePc \in {"done", "none"} => probePc' = probePc)]_vars

\* fallback was entered, the durable store has recovered and an operation it
\* had in flight has succeeded late
C3_Witness ==
    /\ useFallback /\ connected
    /\ \E o \in OpIds : ops[o].cause = "guard" /\ ops[o].mongoPc = "ok"
    /\ \E o \in OpIds : ops[o].startFallback /\ Done(o)

\* C4: an operation that begins while useFallback is true is served by the
\* in-memory store only and never invokes the durable store.
C4_FallbackSkipsDurable ==
    \A o \in OpIds :
        (Started(o) /\ ops[o].startFallback)
        => /\ ops[o].mongoPc = "none"
           /\ ops[o].mongoRes = NoResult
           /\ Done(o)
           /\ ops[o].retFrom = "mem"
           /\ ops[o].memCall = CallOf(ops[o])

\* an operation was served in fallback while the durable store was connected
C4_Witness ==
    \E o \in OpIds : ops[o].startFallback /\ Done(o) /\ connected
                       /\ connPc = "resolved"

\* C5: every facade operation eventually returns to its caller, even when
\* the durable store never answers.
C5_EveryCallReturns ==
    \A o \in OpIds : (ops[o].pc = "primary") ~> (ops[o].pc = "done")

\* a call has returned through the guard while its durable operation is
\* still pending
C5_Witness ==
    \E o \in OpIds : Done(o) /\ ops[o].cause = "guard"
                       /\ ops[o].mongoPc \in {"ensure", "db1", "db2"}

\* C6: no error of the durable store and no guard expiry reaches a caller:
\* after a failed attempt the caller receives the in-memory store's outcome.
C6_DurableErrorsNeverSurface ==
    \A o \in OpIds :
        Done(o)
        => /\ ops[o].ret.tag # "error"
           /\ ops[o].ret.tag # "none"
           /\ (ops[o].cause # "none" \/ ops[o].mongoRes.tag = "error")
                => (ops[o].retFrom = "mem"
                      /\ SameResult(ops[o].ret, ops[o].memRes))

\* calls have returned after a connection error, a backend error and a
\* guard expiry
C6_Witness ==
    /\ \E o \in OpIds : Done(o) /\ ops[o].mongoRes \in
                          {ErrConnectionFailed, ErrNotConnected}
    /\ \E o \in OpIds : Done(o) /\ (ops[o].mongoRes = ErrBackend
                                      \/ ops[o].cause = "guard")

\* C7 as stated: every operation begun before any failure was observed is
\* first attempted against the durable store.
C7_DurablePreferredFromStart ==
    \A o \in OpIds :
        (Started(o) /\ ~ops[o].startFallback) => ops[o].mongoPc # "none"

\* C7 amended: the facade starts outside fallback with the in-memory store
\* as primary; an operation begun outside fallback is attempted against the
\* durable store exactly when it begins after the startup promotion, and is
\* served by the in-memory store alone when it begins before it.
C7_MemPrimaryUntilPromotion ==
    /\ (probePc \in {"none", "waiting", "pinging"})
         => (primaryStorage = "mem" /\ ~useFallback)
    /\ \A o \in OpIds :
         (Started(o) /\ ~ops[o].startFallback)
         => /\ (ops[o].mongoPc # "none") <=> (ops[o].startPrimary = "mongo")
            /\ (ops[o].startPrimary = "mem")
                 => (Done(o) /\ ops[o].retFrom = "mem"
                       /\ ops[o].memCall = CallOf(ops[o]))

C7_Witness ==
    /\ \E o \in OpIds : Done(o) /\ ops[o].startPrimary = "mem"
                          /\ ~ops[o].startFallback
    /\ \E o \in OpIds : Started(o) /\ ops[o].startPrimary = "mongo"
                          /\ ~ops[o].startFallback
                          /\ ops[o].mongoPc # "none"

\* C8: the startup probe promotes the durable store only if its test of the
\* durable store succeeded; when the test found the store not connected,
\* the primary stays the in-memory store and no facade operation ever
\* attempts the durable store.
C8_PromotionOnlyAfterSuccessfulTest ==
    /\ primaryStorage = "mongo" => pingResult = "true"
    /\ pingResult = "false"
         => (primaryStorage = "mem"
               /\ \A o \in OpIds : ops[o].mongoPc = "none")

\* call o began after a catch block had run, that is after the call whose
\* attempt failed had been answered by the in-memory store
Follows(o) == ops[o].startFallback

\* C9: with a durable primary that fails to connect and an empty in-memory
\* store, createDonation succeeds, the facade is in fallback afterwards and
\* a following getDonations returns exactly the created record.
C9_CreateThenListInFallback ==
    (/\ ops[1].kind = "createDonation" /\ Done(1)
     /\ ops[1].startPrimary = "mongo" /\ ~ops[1].startFallback
     /\ ops[1].cause # "none")
    => /\ ops[1].ret.tag = "donation"
       /\ ops[1].ret.val.receiptNumber = ops[1].arg
       /\ useFallback
       /\ (ops[2].kind = "getDonations" /\ Done(2) /\ Follows(2))
            => (ops[2].ret.tag = "list"
                  /\ ops[2].ret.val = << ops[1].ret.val >>)

\* the connection was given up after the last attempt, the donation was
\* created through the facade and then listed
C9_Witness ==
    /\ connPc = "rejected" /\ ~connected
    /\ ops[1].kind = "createDonation" /\ Done(1)
    /\ ops[1].startPrimary = "mongo"
    /\ ops[1].mongoRes = ErrConnectionFailed
    /\ ops[2].kind = "getDonations" /\ Done(2) /\ Follows(2)
    /\ Len(ops[2].ret.val) = 1

\* ------------------------------------------------------------------------
\* Properties of getLastReceiptNumber of the durable store
\* ------------------------------------------------------------------------

MongoStoredReceipts ==
    {mongoDonations[i].receiptNumber : i \in 1..Len(mongoDonations)}

\* C11: getLastReceiptNumber of the durable store returns the stored
\* digit-string receipt number of highest numeric value whenever one stored
\* receipt number is a digit string, the lexicographically greatest receipt
\* number when none is, and the absent value on an empty collection.
C11_DurableLastReceiptHighestNumeric ==
    mongoLastReceipt.tag = "last" =>
        IF MongoStoredReceipts = {} THEN mongoLastReceipt.val = Absent
        ELSE IF \E r \in MongoStoredReceipts : IsNumeric(r)
        THEN /\ mongoLastReceipt.val \in MongoStoredReceipts
             /\ IsNumeric(mongoLastReceipt.val)
             /\ parseInt(mongoLastReceipt.val) =
                  NumericMax({r \in MongoStoredReceipts : IsNumeric(r)})
        ELSE mongoLastReceipt.val = LexMax(MongoStoredReceipts)

\* C12: when both stores hold the same receipt numbers, getLastReceiptNumber
\* of the durable store and of the in-memory store return the same value.
C12_BothStoresAgreeOnLastReceipt ==
    (/\ lastReceipt.tag = "last" /\ mongoLastReceipt.tag = "last"
     /\ Len(mongoDonations) = Len(memDonations)
     /\ MongoStoredReceipts = StoredReceipts)
    => mongoLastReceipt.val = lastReceipt.val

\* ------------------------------------------------------------------------
\* Properties of account creation
\* ------------------------------------------------------------------------

\* no two accounts of the collection users have the same login-handle
UniqueHandles(users) ==
    \A i, j \in 1..Len(users) :
        users[i].username = users[j].username => i = j

\* C13: after any interleaving of POST /api/users requests no two accounts
\* of one store have the same login-handle, and a request is rejected only
\* when it has made no createUser call.
C13_LoginHandlesUnique ==
    /\ UniqueHandles(memUsers)
    /\ UniqueHandles(mongoUsers)
    /\ \A r \in OpIds :
         reqs[r].status = 400 => ops[r].kind = "getUserByUsername"

\* ------------------------------------------------------------------------
\* Properties of receipt numbering
\* ------------------------------------------------------------------------

\* the receipt numbers of the collection are strictly increasing in the
\* order of creation
StrictlyIncreasing(donations) ==
    \A i, j \in 1..Len(donations) :
        i < j => parseInt(donations[i].receiptNumber)
                   < parseInt(donations[j].receiptNumber)

\* C14: after any interleaving of next-receipt-number requests and donation
\* submissions, the donations of a store have pairwise distinct receipt
\* numbers, each greater than those of the donations created before it.
C14_ReceiptNumbersStrictlyIncrease ==
    /\ StrictlyIncreasing(memDonations)
    /\ StrictlyIncreasing(mongoDonations)

\* ------------------------------------------------------------------------
\* Properties of the donation operations of the facade
\* ------------------------------------------------------------------------

\* C15: createDonation(d) followed by getDonationByReceiptNumber of d's
\* receipt number, both on the facade, returns a record with the fields
\* of d.
C15_CreateThenLookupRoundTrip ==
    \A o1, o2 \in OpIds :
        (/\ o1 < o2
         /\ ops[o1].kind = "createDonation" /\ Done(o1)
         /\ ops[o2].kind = "getDonationByReceiptNumber" /\ Done(o2)
         /\ ops[o2].arg = ops[o1].arg)
        => /\ ops[o2].ret.tag = "donation"
           /\ ops[o2].ret.val.receiptNumber = ops[o1].arg

\* ------------------------------------------------------------------------
\* Properties of the account operations of the facade
\* ------------------------------------------------------------------------

\* call o returns in this step
Completes(o) == ops[o].pc # "done" /\ ops'[o].pc = "done"

\* the id matches an account of the store, whose accounts are given
Matches(mem, mongo, store, id) ==
    IF store = "mem"
    THEN \E i \in 1..Len(mem) : mem[i].id = id
    ELSE id.shape = "objectid" /\ MongoFindById(mongo, id.n) # {}

\* the store designated to answer the call when it began
ActiveStore(rec) == IF rec.startFallback THEN "mem" ELSE rec.startPrimary

OnlyLookupsComplete ==
    \A p \in OpIds : Completes(p) => ops'[p].kind = "getUser"

AccountIdsIn(ret) ==
    IF ret.tag = "user" THEN {ret.val.id}
    ELSE IF ret.tag = "users"
         THEN {ret.val[i].id : i \in 1..Len(ret.val)}
         ELSE {}

\* the ids of all accounts returned so far by createAccount, getAccount and
\* listAccounts
ReturnedAccountIds ==
    UNION {AccountIdsIn(ops[o].ret) : o \in {p \in OpIds : Done(p)}}

\* C18: the values returned by the facade do not reveal the store that
\* answered: all returned account ids have the same shape.
C18_AccountIdsHaveOneShape ==
    \A a, b \in ReturnedAccountIds : a.shape = b.shape

\* the in-memory store executes call o in this step
MemRuns(o) == ops[o].memCall = NoCall /\ ops'[o].memCall # NoCall

\* a database call of call o is answered or applied in this step
MongoRuns(o) == ops'[o].mongoPc # ops[o].mongoPc

\* the createDonation calls among a set of calls
Creations(S) == {o \in S : ops'[o].kind = "createDonation"}

\* C17: no storage operation changes or removes a donation: in each store
\* the stored donations only grow, by one donation for each createDonation
\* the store executes, and every account operation leaves them unchanged.
C17_DonationsOnlyGrow ==
    [][/\ IsPrefix(memDonations, memDonations')
       /\ IsPrefix(mongoDonations, mongoDonations')
       /\ Len(memDonations') - Len(memDonations)
            = Cardinality(Creations({o \in OpIds : MemRuns(o)}))
       /\ Len(mongoDonations') - Len(mongoDonations)
            <= Cardinality(Creations({o \in OpIds : MongoRuns(o)}))]_vars

\* the first account has been deleted from the in-memory store while both
\* stores hold a donation
C17_Witness ==
    /\ memDonations # << >> /\ mongoDonations # << >>
    /\ \E o \in OpIds :
         ops[o].kind = "deleteUser" /\ Done(o) /\ ops[o].retFrom = "mem"
    /\ \A i \in 1..Len(memUsers) : memUsers[i].id # NumberId(1)

\* ------------------------------------------------------------------------
\* Properties of the race between the durable store and the guard
\* ------------------------------------------------------------------------

\* a donation with the receipt number is among the donations
Holds(donations, receiptNumber) ==
    \E i \in 1..Len(donations) : donations[i].receiptNumber = receiptNumber

\* C19: an operation of the durable store that loses the race against the
\* guard is not cancelled: when the guard fires the operation stays where
\* it is and the call is answered by the in-memory store, and when a
\* createDonation that lost the race later runs to its end the donation is
\* stored in both stores.
C19_LostRaceIsNotCancelled ==
    [][\A o \in OpIds :
         /\ (ops[o].pc = "primary" /\ ops'[o].cause = "guard")
              => /\ ops'[o].pc = "done" /\ ops'[o].retFrom = "mem"
                 /\ ops'[o].mongoPc = ops[o].mongoPc
                 /\ ops'[o].mongoPc \in {"ensure", "db1", "db2"}
                 /\ mongoDonations' = mongoDonations
         /\ (/\ ops'[o].kind = "createDonation"
             /\ ops'[o].cause = "guard" /\ ops'[o].mongoPc = "ok")
              => /\ Holds(mongoDonations', ops'[o].arg)
                 /\ Holds(memDonations', ops'[o].arg)]_vars

\* the only createDonation issued lost the race, ran to its end in the
\* durable store, and its donation is stored in both stores
C19_Witness ==
    \E o \in OpIds :
        /\ ops[o].kind = "createDonation" /\ Done(o)
        /\ ops[o].cause = "guard" /\ ops[o].mongoPc = "ok"
        /\ \A p \in OpIds \ {o} : ops[p].kind # "createDonation"
        /\ Len(mongoDonations) = 1 /\ Len(memDonations) = 1
        /\ Holds(mongoDonations, ops[o].arg)
        /\ Holds(memDonations, ops[o].arg)

\* ------------------------------------------------------------------------
\* Properties of the connection of the durable store
\* ------------------------------------------------------------------------

\* C20: the connection is attempted at most MAX_CONNECTION_ATTEMPTS times,
\* each new attempt following the backoff after a failed one; the connection
\* promise rejects only when the last attempt fails; from then on no attempt
\* is made, connected stays false, and every operation of the durable store
\* fails with a connection error and stores nothing.
C20_ConnectionRetryBound ==
    [][/\ connectionAttempts' \in 0..MAX_CONNECTION_ATTEMPTS
       /\ (connectionAttempts' # connectionAttempts)
            => /\ connPc = "backoff" /\ connPc' = "connecting"
               /\ connectionAttempts' = connectionAttempts + 1
       /\ (connPc # "rejected" /\ connPc' = "rejected")
            => /\ connPc = "connecting"
               /\ connectionAttempts = MAX_CONNECTION_ATTEMPTS
       /\ (connPc = "rejected")
            => /\ connPc' = "rejected" /\ ~connected'
               /\ connectionAttempts' = connectionAttempts
               /\ mongoDonations' = mongoDonations
               /\ (mongoLastReceipt' # mongoLastReceipt)
                    => mongoLastReceipt'
                         \in {ErrConnectionFailed, ErrNotConnected}]_vars

\* the third attempt has failed and two operations of the durable store
\* were refused since: the second found the connection promise cleared
C20_Witness ==
    /\ connPc = "rejected" /\ ~connected
    /\ connectionAttempts = MAX_CONNECTION_ATTEMPTS
    /\ mongoLastReceipt = ErrNotConnected

\* ------------------------------------------------------------------------
\* Properties of ensureConnected
\* ------------------------------------------------------------------------

\* C21: every operation of the durable store invoked while the connection
\* is pending waits for the connection promise, and a wait ends only by
\* going on once connected, with the rejection, or with the connection
\* timeout error; also for an operation invoked after an earlier wait has
\* timed out.
C21_PendingConnectionIsAwaited ==
    [][/\ (/\ mongoLastReceipt # Waiting
           /\ mongoLastReceipt' \notin {mongoLastReceipt, NoResult}
           /\ ConnectionPending)
            => mongoLastReceipt' = Waiting
       /\ (mongoLastReceipt = Waiting /\ mongoLastReceipt' # Waiting)
            => \/ mongoLastReceipt'.tag = "last" /\ connected
               \/ mongoLastReceipt'
                    \in {ErrConnectionTimeout, ErrConnectionFailed}]_vars

\* ------------------------------------------------------------------------
\* Properties of the resolution of an account id by the durable store
\* ------------------------------------------------------------------------

\* C22: getUser, updateUserStatus and deleteUser find no account only when
\* the id matches none as an _id, as an integer id and as a string id, and
\* getUser(id) is absent exactly when updateUserStatus(id, b) is absent.
C22_IdResolvedThreeWays ==
    \A id \in ResolveIds :
        /\ (GetUserFinds(mongoUsers, id) = 0 /\ id.shape # "number")
             => FindOneById(mongoUsers, id) = 0
        /\ (DeleteUserFinds(mongoUsers, id) = 0 /\ id.shape # "number")
             => FindOneById(mongoUsers, id) = 0
        /\ (UpdateUserStatusFinds(mongoUsers, id) = 0 /\ id.shape # "number")
             => FindOneById(mongoUsers, id) = 0
        /\ \A isActive \in BOOLEAN :
           \A e \in MongoUpdateUserStatus(mongoUsers, id, isActive) :
               (MongoGetUser(mongoUsers, id) = Undefined)
                 <=> (e.res = Undefined)

\* ------------------------------------------------------------------------
\* Properties of the designation state of the facade
\* ------------------------------------------------------------------------

\* the catch block of some call runs in this step
FailureTransition ==
    \E o \in OpIds : Completes(o) /\ ops'[o].cause # "none"

\* the connection test ends with ping() having returned
PromotionStep ==
    /\ probePc # "done" /\ probePc' = "done"
    /\ pingResult = "none" /\ pingResult' \in {"true", "false"}

\* C23: useFallback, primaryStorage and fallbackStorage are written only by
\* the catch block of executeWithFallback, which writes useFallback = true
\* alone, and by the startup promotion; a call that succeeds on the primary
\* store or is served in fallback leaves the three fields unchanged.
C23_DesignationWrittenOnlyOnFailureOrPromotion ==
    [][/\ (<< useFallback, primaryStorage, fallbackStorage >>'
             # << useFallback, primaryStorage, fallbackStorage >>)
            => (FailureTransition \/ PromotionStep)
       /\ FailureTransition
            => (useFallback' /\ UNCHANGED << primaryStorage,
                                             fallbackStorage >>)
       /\ (\E o \in OpIds : Completes(o) /\ ops'[o].cause = "none")
            => UNCHANGED << useFallback, primaryStorage,
                            fallbackStorage >>]_vars

\* after the promotion one call has gone through the catch block and the
\* next was served in fallback
C23_Witness ==
    /\ primaryStorage = "mongo" /\ useFallback
    /\ \E o, p \in OpIds :
         /\ Done(o) /\ ops[o].cause # "none" /\ ~ops[o].startFallback
         /\ Done(p) /\ ops[p].startFallback /\ ops[p].cause = "none"

\* C24: every step in which the facade enters fallback is a step in which
\* the warning is logged for a call whose attempt on the primary store
\* failed.
C24_FallbackTransitionIsLogged ==
    [][(~useFallback /\ useFallback')
         => \E o \in OpIds :
              /\ ~ops[o].warned /\ ops'[o].warned
              /\ ops'[o].cause \in {"threw", "guard"}
              /\ ~ops'[o].startFallback]_vars

\* the facade is in fallback and the warning of the call that caused it
\* was logged
C24_Witness ==
    /\ useFallback
    /\ \E o \in OpIds : ops[o].warned /\ ops[o].cause = "guard"

\* the ids the calls of that kind returned, in the order of the calls
ReturnedIds(kind) ==
    LET made == SelectSeq(memCalls, LAMBDA c : c.kind = kind)
    IN  [i \in 1..Len(made) |-> made[i].id]

\* strictly increasing
Increasing(ids) ==
    \A i, j \in 1..Len(ids) : i < j => ids[i] < ids[j]

\* no two entries with the same id
DistinctIds(ids) ==
    \A i, j \in 1..Len(ids) : i # j => ids[i] # ids[j]

\* C25: a new in-memory store holds exactly the administrator, with id 1;
\* under any sequence of createUser, updateUserStatus and deleteUser calls
\* every id createUser returns is greater than every id returned before
\* (the administrator's included), no id of a deleted account is returned
\* again and no two stored accounts share an id; donation ids start at 1 and
\* behave the same way.
C25_MemIdsNeverReused ==
    /\ memCalls = << >> => memUsers = << MemNewUser(1, AdminHandle) >>
    /\ Increasing(<< 1 >> \o ReturnedIds("createUser"))
    /\ \A i, j \in 1..Len(memCalls) :
         (/\ i < j
          /\ memCalls[i].kind = "deleteUser"
          /\ memCalls[j].kind = "createUser"
          /\ \/ memCalls[i].id = 1
             \/ \E h \in 1..(i - 1) :
                  memCalls[h] = [kind |-> "createUser",
                                 id |-> memCalls[i].id])
           => memCalls[j].id # memCalls[i].id
    /\ DistinctIds([i \in 1..Len(memUsers) |-> memUsers[i].id.n])
    /\ Increasing(ReturnedIds("createDonation"))
    /\ ReturnedIds("createDonation") # << >>
         => ReturnedIds("createDonation")[1] = 1
    /\ DistinctIds([i \in 1..Len(memDonations) |-> memDonations[i].id])

\* an account was created, deleted, and another account was created after
\* it; a donation was created
C25_Witness ==
    /\ \E i, j, k \in 1..Len(memCalls) :
         /\ i < j /\ j < k
         /\ memCalls[i].kind = "createUser"
         /\ memCalls[j] = [kind |-> "deleteUser", id |-> memCalls[i].id]
         /\ memCalls[k].kind = "createUser"
    /\ Len(memUsers) = 2
    /\ Len(memDonations) = 1

\* C26: a failure or timeout of the administrator's check or creation
\* leaves the connection as it was: the connection promise stays resolved
\* and connected stays true, and a call the facade starts on the durable
\* store afterwards sends its database call.
C26_AdminBootstrapIsBestEffort ==
    [][/\ (adminPc # "failed" /\ adminPc' = "failed")
           => connected' /\ connPc' = "resolved"
       /\ adminPc = "failed" => connected' /\ connPc' = "resolved"
       /\ \A o \in OpIds :
            (/\ adminPc = "failed"
             /\ ops[o].pc = "idle" /\ ops'[o].pc # "idle"
             /\ primaryStorage = "mongo" /\ ~GoesDirectlyToFallback)
              => ops'[o].pc = "primary" /\ ops'[o].mongoPc = "db1"]_vars

\* the administrator's creation failed, the users collection holds no
\* administrator, and a createUser call was answered by the database
C26_Witness ==
    /\ adminPc = "failed"
    /\ connected
    /\ \A i \in 1..Len(mongoUsers) : mongoUsers[i].username # AdminHandle
    /\ \E o \in OpIds :
         /\ Done(o) /\ ops[o].retFrom = "mongo"
         /\ ops[o].kind = "createUser"

\* C27: once useFallback is set, no call of the facade returns a result of
\* the durable store, the calls started on the durable store before
\* useFallback was set included.
C27_NoDurableResultAfterFallback ==
    [][\A o \in OpIds :
         (useFallback /\ primaryStorage = "mongo" /\ Completes(o))
           => ops'[o].retFrom # "mongo"]_vars

\* C28: whatever the interleaving of createDonation calls on the durable
\* store, no two stored donations have the same id.
C28_DurableDonationIdsDistinct ==
    DistinctIds([i \in 1..Len(mongoDonations) |-> mongoDonations[i].id])

\* the receipt numbers of the donations a store holds
StoredReceiptNumbers(donations) ==
    {donations[i].receiptNumber : i \in 1..Len(donations)}

\* C29: for every set of stored receipt numbers, in either store, the
\* receipt number GET /api/next-receipt-number computes from what the
\* store's getLastReceiptNumber returned is not a stored receipt number.
C29_NextReceiptNumberIsFresh ==
    /\ lastReceipt.tag = "last"
         => NextReceiptNumber(lastReceipt.val)
              \notin StoredReceiptNumbers(memDonations)
    /\ mongoLastReceipt.tag = "last"
         => NextReceiptNumber(mongoLastReceipt.val)
              \notin StoredReceiptNumbers(mongoDonations)

\* C30: a DELETE /api/users/:id request that carries an id getUsers of the
\* active store returned is answered 200 and removes the account with that
\* id from the store and no other account, in the in-memory store and in
\* the durable store.
C30_ListedAccountCanBeDeleted ==
    [][deleteReq' # deleteReq
         => /\ deleteReq'.status = 200
            /\ deleteReq'.store = "mem"
                 => memUsers' = SelectSeq(memUsers,
                                  LAMBDA u : u.id # deleteReq'.id)
            /\ deleteReq'.store = "mongo"
                 => mongoUsers' = SelectSeq(mongoUsers,
                      LAMBDA d : MongoUserOut(d).id # deleteReq'.id)]_vars

=============================================================================
